---- MODULE Spec2Model ----
(***************************************************************************)
(* The memory-layout graph engine of mv: the Visualizer component, its     *)
(* memory state, the stack builder (useStackNodes) and the heap builder    *)
(* (useHeapNodes), as a state machine over React renders.                  *)
(*                                                                         *)
(* One Render step is one render of Visualizer followed by the flush of    *)
(* its effects, in hook order, with the state updates they queue applied   *)
(* as one batch.  The props come from the Index route (source text, query  *)
(* data, query error) and from the environment (window, panel, theme).     *)
(*                                                                         *)
(* Beside it: the update state (useUpdates), the editor settings store     *)
(* with its copy in localStorage, and the query key of the analysis        *)
(* (compressSourceCode, createSourceCodeKey) with the query cache.         *)
(***************************************************************************)
EXTENDS Integers, Sequences, FiniteSets, TLC

VARIABLES
  sourceCode,               \* Index: the editor's text, a sequence of characters
  analyzeResponse,          \* prop: the result object handed to Visualizer
  analyzeError,             \* prop: TRUE when the query carries an error
  windowHeight,             \* useWindowSize().height
  visualizerPanelSize,      \* Index: the panel split, in percent
  theme,                    \* useTheme().theme
  stackNodes,               \* useMemoryState
  heapNodes,
  stackConnections,
  heapConnections,
  lastValidAnalyzeResponse,
  heapXCoordinate,          \* usePositionState
  mounted,                  \* FALSE until the first render's effects ran
  deps,                     \* the dependency values of the previous render
  stackNodesChanged,        \* the stackNodes array was replaced by the last commit
  pending,                  \* a render is scheduled
  crashed,                  \* an effect threw
  didReset,                 \* the last render's effects called resetMemory
  renders,                  \* renders run since the inputs changed, while one is due
  updateState,              \* useUpdates: the UpdateState object
  updateCalls,              \* useUpdates: commands awaited and timers armed
  settings,                 \* useEditorSettingsStore: the EditorSettings object
  fonts,                    \* useEditorSettingsStore: the system-font fields
  localStorage,             \* the item stored under 'editor-settings'
  queryCache                \* the query client's cache: query key -> analysed text

\* Visualizer and the props it is rendered with.
visVars == <<sourceCode, analyzeResponse, analyzeError, windowHeight,
             visualizerPanelSize, theme, stackNodes, heapNodes, stackConnections,
             heapConnections, lastValidAnalyzeResponse, heapXCoordinate, mounted,
             deps, stackNodesChanged, pending, crashed, didReset, renders>>

\* The rest of the application: updates, editor settings, the query cache.
appVars == <<updateState, updateCalls, settings, fonts, localStorage, queryCache>>

vars == <<sourceCode, analyzeResponse, analyzeError, windowHeight,
          visualizerPanelSize, theme, stackNodes, heapNodes, stackConnections,
          heapConnections, lastValidAnalyzeResponse, heapXCoordinate, mounted,
          deps, stackNodesChanged, pending, crashed, didReset, renders,
          updateState, updateCalls, settings, fonts, localStorage, queryCache>>

-----------------------------------------------------------------------------
(* Values *)

\* JavaScript's undefined / null where a string is expected.
Undefined == "undefined"

\* The absent object (null state, or no previous render).
NoObject == [id |-> 0]

\* constants.ts is not among the sources; the values are the spec's configuration.
BASE_NODE_HEIGHT == 30
HEIGHT_OFFSET == 100
NODE_WIDTH == 200

\* usePositionState: the stack layer's x is 50 initially and after every effect.
stackXCoordinate == 50

\* Addresses exceed a 32-bit signed integer: an address is kept as two 16-bit
\* halves, value = hi * 65536 + lo.
Half == 256 * 256
StackBaseAddress == [hi |-> 49151, lo |-> 65535]   \* 0xbfffffff
HeapBaseAddress == [hi |-> 64, lo |-> 0]           \* 0x00400000

AddrAdd(a, n) ==
  [hi |-> a.hi + ((a.lo + n) \div Half), lo |-> (a.lo + n) % Half]

HexDigits ==
  <<"0", "1", "2", "3", "4", "5", "6", "7", "8", "9", "A", "B", "C", "D", "E", "F">>

RECURSIVE Hex(_)
\* n.toString(16).toUpperCase() for n >= 0
Hex(n) ==
  IF n < 16 THEN HexDigits[n + 1]
  ELSE Hex(n \div 16) \o HexDigits[(n % 16) + 1]

\* the low half with its leading zeros, as it prints below a non-zero high half
Hex4(n) ==
  HexDigits[(n \div 4096) + 1] \o HexDigits[((n \div 256) % 16) + 1]
    \o HexDigits[((n \div 16) % 16) + 1] \o HexDigits[(n % 16) + 1]

\* `0x${address.toString(16).toUpperCase()}`
FormatAddress(a) ==
  "0x" \o (IF a.hi = 0 THEN Hex(a.lo) ELSE Hex(a.hi) \o Hex4(a.lo))

-----------------------------------------------------------------------------
(* utils.ts *)

getHeightFromSize(size) == size * BASE_NODE_HEIGHT

\* The position with the slip of measuring every node from the window's bottom.
calculateNodePositionFromWindow(hasPrevious, previousY, nodeSize, wHeight, heightOffset) ==
  wHeight - getHeightFromSize(nodeSize) - heightOffset

\* previousY is the previous node's position.y; hasPrevious is FALSE for null.
calculateNodePosition(hasPrevious, previousY, nodeSize, wHeight, heightOffset) ==
  IF ~hasPrevious
  THEN wHeight - getHeightFromSize(nodeSize) - heightOffset
  ELSE previousY - getHeightFromSize(nodeSize)

\* The id with the slip of counting the blocks from one.
generateNodeIdOneBased(index, isUnallocated, isFree) ==
  IF isUnallocated THEN "unallocated-" \o ToString(index + 1)
  ELSE IF isFree THEN "free-" \o ToString(index + 1)
  ELSE ToString(index + 1)

\* The id with the slip of leaving the index out after a prefix.
generateNodeIdPrefixOnly(index, isUnallocated, isFree) ==
  IF isUnallocated THEN "unallocated"
  ELSE IF isFree THEN "free"
  ELSE ToString(index)

generateNodeId(index, isUnallocated, isFree) ==
  IF isUnallocated THEN "unallocated-" \o ToString(index)
  ELSE IF isFree THEN "free-" \o ToString(index)
  ELSE ToString(index)

\* What may stand before or after a word in an id: nothing, "-<digit>" as
\* generateNodeId appends it, or a letter of a name.
IdAffixes ==
  {""} \cup {"-" \o ToString(d) : d \in 0..9} \cup {"d"}

\* id.includes(word): the id is the word with something before and after it.
Includes(id, word) ==
  \E before, after \in IdAffixes : id = before \o word \o after

RECURSIVE calculateMemoryUsage(_)
\* nodes.reduce from 0: a node whose id includes 'free' or 'unallocated' is
\* passed over, the others add their size.
calculateMemoryUsage(list) ==
  IF list = <<>> THEN 0
  ELSE LET acc == calculateMemoryUsage(SubSeq(list, 1, Len(list) - 1))
           node == list[Len(list)]
       IN IF Includes(node.id, "free") \/ Includes(node.id, "unallocated")
          THEN acc
          ELSE acc + node.size

createEdge(id, type, source, target, color) ==
  [id |-> id, type |-> type, source |-> source, target |-> target, stroke |-> color]

\* generateRandomColor(theme): light hues on the dark theme, dark hues on the
\* light one, never the literal 'red'.
Palette(th) ==
  IF th = "dark" THEN {"#F0A0E0", "#A0E0F0"} ELSE {"#602080", "#206040"}

-----------------------------------------------------------------------------
(* useStackNodes: the stack builder *)

\* A stack symbol {Variable: {...}} or {Pointer: {...}} or another variant.
\* kind is the variant's key; target is Pointer.value?.Variable?.name.
VariableSymbol(name, size, value, vtype) ==
  [kind |-> "Variable", name |-> name, size |-> size, value |-> value,
   vtype |-> vtype, target |-> Undefined]

PointerSymbol(name, size, target) ==
  [kind |-> "Pointer", name |-> name, size |-> size, value |-> Undefined,
   vtype |-> Undefined, target |-> target]

OtherSymbol(name, size) ==
  [kind |-> "Reference", name |-> name, size |-> size, value |-> Undefined,
   vtype |-> Undefined, target |-> Undefined]

\* The node built for a Variable symbol.
VariableNode(symbol, yPos, xPos, address) ==
  [id |-> symbol.name,
   x |-> xPos, y |-> yPos,
   sourcePosition |-> Undefined, targetPosition |-> Undefined,
   nodeType |-> "stack",
   label |-> symbol.name,
   value |-> IF symbol.value # Undefined /\ symbol.value # ""
             THEN symbol.value ELSE "Uninitialized",
   dataSize |-> symbol.size,
   type |-> symbol.vtype,
   address |-> FormatAddress(address),
   pointingToLabel |-> Undefined,
   pointingToAddress |-> Undefined,
   metadata |-> Undefined,
   isFree |-> FALSE,
   width |-> NODE_WIDTH,
   height |-> getHeightFromSize(symbol.size),
   size |-> symbol.size]

\* The node built for a Pointer symbol.
PointerNode(symbol, yPos, xPos, address) ==
  [id |-> symbol.name,
   x |-> xPos, y |-> yPos,
   sourcePosition |-> "right", targetPosition |-> Undefined,
   nodeType |-> "stack",
   label |-> "*" \o symbol.name,
   value |-> "",
   dataSize |-> symbol.size,
   type |-> "Pointer",
   address |-> FormatAddress(address),
   pointingToLabel |-> symbol.target,
   pointingToAddress |-> Undefined,
   metadata |-> Undefined,
   isFree |-> FALSE,
   width |-> NODE_WIDTH,
   height |-> getHeightFromSize(symbol.size),
   size |-> symbol.size]

RECURSIVE StackLoopCountingAll(_, _, _, _, _, _)
\* The stack loop with the slip of moving the address cursor past a symbol of
\* unknown variant.
StackLoopCountingAll(stack, k, acc, address, wHeight, xPos) ==
  IF k > Len(stack) THEN [nodes |-> acc, address |-> address]
  ELSE
    LET symbol == stack[k]
        hasPrevious == Len(acc) > 0
        previousY == IF hasPrevious THEN acc[Len(acc)].y ELSE 0
        yPos == calculateNodePosition(hasPrevious, previousY, symbol.size,
                                      wHeight, HEIGHT_OFFSET)
    IN IF symbol.kind = "Variable"
       THEN StackLoopCountingAll(stack, k + 1,
                      Append(acc, VariableNode(symbol, yPos, xPos, address)),
                      AddrAdd(address, symbol.size), wHeight, xPos)
       ELSE IF symbol.kind = "Pointer"
       THEN StackLoopCountingAll(stack, k + 1,
                      Append(acc, PointerNode(symbol, yPos, xPos, address)),
                      AddrAdd(address, symbol.size), wHeight, xPos)
       ELSE StackLoopCountingAll(stack, k + 1, acc,
                      AddrAdd(address, symbol.size), wHeight, xPos)

RECURSIVE StackLoop(_, _, _, _, _, _)
\* for (const symbol of analyzeResponse.stack): acc holds stackNodesInner and
\* the address cursor after the first k - 1 symbols.
StackLoop(stack, k, acc, address, wHeight, xPos) ==
  IF k > Len(stack) THEN [nodes |-> acc, address |-> address]
  ELSE
    LET symbol == stack[k]
        hasPrevious == Len(acc) > 0
        previousY == IF hasPrevious THEN acc[Len(acc)].y ELSE 0
        yPos == calculateNodePosition(hasPrevious, previousY, symbol.size,
                                      wHeight, HEIGHT_OFFSET)
    IN IF symbol.kind = "Variable"
       THEN StackLoop(stack, k + 1,
                      Append(acc, VariableNode(symbol, yPos, xPos, address)),
                      AddrAdd(address, symbol.size), wHeight, xPos)
       ELSE IF symbol.kind = "Pointer"
       THEN StackLoop(stack, k + 1,
                      Append(acc, PointerNode(symbol, yPos, xPos, address)),
                      AddrAdd(address, symbol.size), wHeight, xPos)
       ELSE StackLoop(stack, k + 1, acc, address, wHeight, xPos)

\* innerNode.id === node.data.extraInfo.pointingToLabel, for a Pointer node
StackMatch(node, innerNode) ==
  /\ node.type = "Pointer"
  /\ node.pointingToLabel # Undefined
  /\ innerNode.id = node.pointingToLabel

RECURSIVE StackConnectBackward(_, _, _, _, _)
\* The connection loops with the slip of resolving a pointer only against the
\* nodes that stand before it in the list.
StackConnectBackward(nodes, edges, k, colors, n) ==
  IF k > n * n THEN [nodes |-> nodes, edges |-> edges]
  ELSE
    LET i == ((k - 1) \div n) + 1
        j == ((k - 1) % n) + 1
    IN IF StackMatch(nodes[i], nodes[j]) /\ j < i
       THEN
         LET pointed == [nodes EXCEPT
                           ![i].pointingToAddress = nodes[j].address,
                           ![i].value = "&" \o nodes[i].pointingToLabel]
             anchored == [pointed EXCEPT
                            ![j].sourcePosition = "right",
                            ![j].targetPosition = "right"]
             edge == createEdge("e" \o nodes[i].id \o "-" \o nodes[j].id,
                                "step", nodes[i].id, nodes[j].id,
                                colors[Len(edges) + 1])
         IN StackConnectBackward(anchored, Append(edges, edge), k + 1, colors, n)
       ELSE StackConnectBackward(nodes, edges, k + 1, colors, n)

RECURSIVE StackConnect(_, _, _, _, _)
\* The two nested forEach loops that create the connections for pointers:
\* step k visits the pair (node i, innerNode j) in loop order.  The edge pushed
\* as number Len(edges) + 1 takes the color drawn for it.
StackConnect(nodes, edges, k, colors, n) ==
  IF k > n * n THEN [nodes |-> nodes, edges |-> edges]
  ELSE
    LET i == ((k - 1) \div n) + 1
        j == ((k - 1) % n) + 1
    IN IF StackMatch(nodes[i], nodes[j])
       THEN
         LET pointed == [nodes EXCEPT
                           ![i].pointingToAddress = nodes[j].address,
                           ![i].value = "&" \o nodes[i].pointingToLabel]
             anchored == [pointed EXCEPT
                            ![j].sourcePosition = "right",
                            ![j].targetPosition = "right"]
             edge == createEdge("e" \o nodes[i].id \o "-" \o nodes[j].id,
                                "step", nodes[i].id, nodes[j].id,
                                colors[Len(edges) + 1])
         IN StackConnect(anchored, Append(edges, edge), k + 1, colors, n)
       ELSE StackConnect(nodes, edges, k + 1, colors, n)

\* The number of edges the stack builder pushes for a stack list.
StackEdgeCount(stack) ==
  LET nodes == StackLoop(stack, 1, <<>>, StackBaseAddress, 0, 0).nodes
  IN Cardinality({p \in (1..Len(nodes)) \X (1..Len(nodes)) :
                    StackMatch(nodes[p[1]], nodes[p[2]])})

\* The body of useStackNodes' effect past its guard: the lists it hands to
\* setStackNodes and setStackConnections.
BuildStack(stack, wHeight, xPos, colors) ==
  LET built == StackLoop(stack, 1, <<>>, StackBaseAddress, wHeight, xPos).nodes
      linked == StackConnect(built, <<>>, 1, colors, Len(built))
  IN [nodes |-> linked.nodes, connections |-> linked.edges]

-----------------------------------------------------------------------------
(* useHeapNodes: the heap builder *)

\* A heap block.  current is current_pointer_identifier (Undefined for null);
\* dangling is the set of dangling_pointer_identifiers (empty when the list is
\* absent: `?.includes` is then undefined, which is falsy).
HeapBlock(size, state, metadata, current, dangling) ==
  [size |-> size, block_state |-> state, metadata |-> metadata,
   current |-> current, dangling |-> dangling]

\* The heapNode object literal of one block.
HeapNode(block, index, yPos, xPos, address) ==
  LET isFree == block.block_state = "Free"
      isUnallocated == block.block_state = "Unallocated"
  IN [id |-> generateNodeId(index, isUnallocated, isFree),
      x |-> xPos, y |-> yPos,
      sourcePosition |-> Undefined, targetPosition |-> Undefined,
      nodeType |-> "heap",
      label |-> IF block.metadata # Undefined /\ block.metadata # ""
                THEN block.metadata ELSE "null",
      value |-> "",
      dataSize |-> ToString(block.size),
      type |-> IF block.block_state = "Leaked" THEN "LB" ELSE "",
      address |-> FormatAddress(address),
      pointingToLabel |-> Undefined,
      pointingToAddress |-> Undefined,
      metadata |-> Undefined,
      isFree |-> isFree,
      width |-> NODE_WIDTH,
      height |-> getHeightFromSize(block.size),
      size |-> block.size]

\* The test with the slip of never finding the word.
IdIncludesUnallocatedNever(block) == FALSE

\* heapNodeID.includes('unallocated'): the id is "unallocated-<index>" exactly
\* for an Unallocated block; the other ids are digits or "free-<digits>".
IdIncludesUnallocated(block) == block.block_state = "Unallocated"

RECURSIVE PreservedStroke(_, _, _, _, _)
\* connectionsInner.forEach: the stroke of the last queued connection with this
\* source and target, or the fresh stroke when there is none.
PreservedStroke(connections, k, source, target, stroke) ==
  IF k > Len(connections) THEN stroke
  ELSE PreservedStroke(connections, k + 1, source, target,
         IF connections[k].source = source /\ connections[k].target = target
         THEN connections[k].stroke ELSE stroke)

\* The stroke with the slip of an "else if": the warning color only when the
\* stack node is not the block's current pointer.
EdgeStrokeElseIf(connections, source, target, isCurrentPointer, isDanglingPointer, fresh) ==
  IF isCurrentPointer
  THEN PreservedStroke(connections, 1, source, target, fresh)
  ELSE IF isDanglingPointer THEN "red" ELSE fresh

\* The stroke with the slip of never looking for a queued connection.
EdgeStrokeAlwaysFresh(connections, source, target, isCurrentPointer, isDanglingPointer, fresh) ==
  IF isDanglingPointer THEN "red" ELSE fresh

\* The stroke of the edge pushed for a related stack node.
EdgeStroke(connections, source, target, isCurrentPointer, isDanglingPointer, fresh) ==
  LET kept == IF isCurrentPointer
              THEN PreservedStroke(connections, 1, source, target, fresh)
              ELSE fresh
  IN IF isDanglingPointer THEN "red" ELSE kept

\* The stack node's update with the slip of recording the heap address for the
\* current pointer only.
PointedStackNodeActiveOnly(stackNode, isCurrentPointer, isDanglingPointer, heapAddress) ==
  [stackNode EXCEPT
     !.pointingToAddress = IF isCurrentPointer THEN heapAddress
                           ELSE stackNode.pointingToAddress,
     !.metadata = IF isDanglingPointer THEN "Dangling Pointer"
                  ELSE stackNode.metadata]

\* What the forEach body writes on a related stack node: the heap node's
\* address under either relation, the metadata under the dangling one.
PointedStackNode(stackNode, isCurrentPointer, isDanglingPointer, heapAddress) ==
  [stackNode EXCEPT
     !.pointingToAddress = heapAddress,
     !.metadata = IF isDanglingPointer THEN "Dangling Pointer"
                  ELSE stackNode.metadata]

RECURSIVE HeapConnect(_, _, _, _, _, _)
\* stackNodes.forEach for one block: st holds the stack nodes (mutated in
\* place), the block's heap node and connectionsInner after the first j - 1
\* stack nodes.
HeapConnect(block, heapNodeID, st, j, colors, heapAddress) ==
  IF j > Len(st.stack) THEN st
  ELSE
    LET stackNode == st.stack[j]
        isCurrentPointer == block.current # Undefined /\ stackNode.id = block.current
        isDanglingPointer == stackNode.id \in block.dangling
    IN IF isCurrentPointer \/ isDanglingPointer
       THEN
         LET stroke == EdgeStroke(st.connections, stackNode.id, heapNodeID,
                                  isCurrentPointer, isDanglingPointer,
                                  colors[Len(st.connections) + 1])
             edge == createEdge("e" \o stackNode.id \o "-" \o heapNodeID,
                                "straight", stackNode.id, heapNodeID, stroke)
             marked == [st.stack EXCEPT
                          ![j] = PointedStackNode(stackNode, isCurrentPointer,
                                                  isDanglingPointer, heapAddress)]
         IN HeapConnect(block, heapNodeID,
                        [stack |-> marked,
                         node |-> [st.node EXCEPT !.targetPosition = "left"],
                         connections |-> Append(st.connections, edge)],
                        j + 1, colors, heapAddress)
       ELSE HeapConnect(block, heapNodeID, st, j + 1, colors, heapAddress)

RECURSIVE HeapLoopSkippingUnallocated(_, _, _, _, _, _, _)
\* The heap loop with the slip of leaving the address cursor where it is after
\* an Unallocated block.
HeapLoopSkippingUnallocated(heap, k, acc, address, wHeight, xPos, colors) ==
  IF k > Len(heap) THEN acc
  ELSE
    LET block == heap[k]
        index == k - 1
        hasPrevious == Len(acc.nodes) > 0
        previousY == IF hasPrevious THEN acc.nodes[Len(acc.nodes)].y ELSE 0
        yPos == calculateNodePosition(hasPrevious, previousY, block.size,
                                      wHeight, HEIGHT_OFFSET)
        heapNode == HeapNode(block, index, yPos, xPos, address)
        start == [stack |-> acc.stack, node |-> heapNode,
                  connections |-> acc.connections]
        done == IF ~IdIncludesUnallocated(block)
                THEN HeapConnect(block, heapNode.id, start, 1, colors,
                                 heapNode.address)
                ELSE start
    IN HeapLoopSkippingUnallocated(heap, k + 1,
                [stack |-> done.stack,
                 nodes |-> Append(acc.nodes, done.node),
                 connections |-> done.connections],
                IF IdIncludesUnallocated(block) THEN address
                ELSE AddrAdd(address, block.size),
                wHeight, xPos, colors)

RECURSIVE HeapLoop(_, _, _, _, _, _, _)
\* for (const block of analyzeResponse.heap): acc holds the stack nodes,
\* heapNodesInner and connectionsInner after the first k - 1 blocks; index is
\* k - 1.
HeapLoop(heap, k, acc, address, wHeight, xPos, colors) ==
  IF k > Len(heap) THEN acc
  ELSE
    LET block == heap[k]
        index == k - 1
        hasPrevious == Len(acc.nodes) > 0
        previousY == IF hasPrevious THEN acc.nodes[Len(acc.nodes)].y ELSE 0
        yPos == calculateNodePosition(hasPrevious, previousY, block.size,
                                      wHeight, HEIGHT_OFFSET)
        heapNode == HeapNode(block, index, yPos, xPos, address)
        start == [stack |-> acc.stack, node |-> heapNode,
                  connections |-> acc.connections]
        done == IF ~IdIncludesUnallocated(block)
                THEN HeapConnect(block, heapNode.id, start, 1, colors,
                                 heapNode.address)
                ELSE start
    IN HeapLoop(heap, k + 1,
                [stack |-> done.stack,
                 nodes |-> Append(acc.nodes, done.node),
                 connections |-> done.connections],
                AddrAdd(address, block.size), wHeight, xPos, colors)

\* The body of useHeapNodes' effect past its guard: the lists it hands to
\* setHeapNodes and setHeapConnections, and the stack nodes as it leaves them.
BuildHeap(heap, stack, wHeight, xPos, colors) ==
  HeapLoop(heap, 1, [stack |-> stack, nodes |-> <<>>, connections |-> <<>>],
           HeapBaseAddress, wHeight, xPos, colors)

\* The number of edges the heap builder pushes.
HeapEdgeCount(heap, stack) ==
  Cardinality({p \in (1..Len(heap)) \X (1..Len(stack)) :
     /\ ~IdIncludesUnallocated(heap[p[1]])
     /\ \/ (heap[p[1]].current # Undefined /\ stack[p[2]].id = heap[p[1]].current)
        \/ stack[p[2]].id \in heap[p[1]].dangling})

-----------------------------------------------------------------------------
(* The analysis results and the environment *)

\* An analysis result object.  id is the object's identity (=== compares
\* it); hasStack / hasHeap tell whether the field is present.
Response(id, hasStack, stack, hasHeap, heap) ==
  [id |-> id, hasStack |-> hasStack, stack |-> stack,
   hasHeap |-> hasHeap, heap |-> heap]

\* The results the analyzer delivers in this model, each a distinct object.
ResultXP ==
  Response(1, TRUE,
           <<VariableSymbol("x", 4, "12", "Integer"), PointerSymbol("p", 8, "x")>>,
           TRUE, <<>>)
ResultPQ ==
  Response(2, TRUE,
           <<PointerSymbol("p", 8, Undefined), PointerSymbol("q", 8, "p")>>,
           TRUE,
           <<HeapBlock(4, "Allocated", "int", "p", {}),
             HeapBlock(2, "Free", Undefined, Undefined, {"q"})>>)
ResultHeapOnly ==
  Response(3, TRUE, <<>>, TRUE, <<HeapBlock(4, "Allocated", "int", "p", {})>>)
ResultNoStack ==
  Response(4, FALSE, <<>>, TRUE, <<HeapBlock(4, "Leaked", Undefined, Undefined, {})>>)
ResultEmpty ==
  Response(5, TRUE, <<>>, TRUE, <<>>)
ResultNoHeap ==
  Response(6, TRUE, <<OtherSymbol("r", 4), PointerSymbol("p", 8, "z")>>, FALSE, <<>>)
Catalogue ==
  {ResultXP, ResultPQ, ResultHeapOnly, ResultNoStack, ResultEmpty, ResultNoHeap}

FreshIds == {-1, -2, -3}

\* index.tsx: analyzeResponse ?? { stack: [], heap: [] }, a new object at every
\* render of Index while the query has no data.
FreshEmpty ==
  Response(CHOOSE i \in FreshIds : i # analyzeResponse.id /\ i # deps.response,
           TRUE, <<>>, TRUE, <<>>)

Sources == {<<>>, <<" ">>, <<"x", " ">>}
WindowHeights == {600, 700}
PanelSizes == {50, 60}
Themes == {"dark", "light"}
windowWidth == 1000

IsSpace(c) == c \in {" ", "\n", "\t", "\r"}

RECURSIVE TrimStart(_)
TrimStart(s) == IF s # <<>> /\ IsSpace(Head(s)) THEN TrimStart(Tail(s)) ELSE s

RECURSIVE TrimEnd(_)
TrimEnd(s) ==
  IF s # <<>> /\ IsSpace(s[Len(s)]) THEN TrimEnd(SubSeq(s, 1, Len(s) - 1)) ELSE s

\* String.prototype.trim
Trim(s) == TrimEnd(TrimStart(s))

-----------------------------------------------------------------------------
(* Visualizer *)

\* The entries test with the slip of asking only for the lists, not for their
\* lengths.
HasEntriesAnyList(r) == r.hasStack \/ r.hasHeap

\* analyzeResponse.stack?.length > 0 || analyzeResponse.heap?.length > 0
HasEntries(r) ==
  (r.hasStack /\ Len(r.stack) > 0) \/ (r.hasHeap /\ Len(r.heap) > 0)

hasValidAnalyzeResponse ==
  /\ analyzeResponse # NoObject
  /\ ~analyzeError
  /\ HasEntries(analyzeResponse)

shouldShowWriteCodeMessage ==
  Trim(sourceCode) = <<>> /\ lastValidAnalyzeResponse = NoObject

shouldShowLastValidVisualization ==
  /\ Trim(sourceCode) # <<>>
  /\ ~hasValidAnalyzeResponse
  /\ lastValidAnalyzeResponse # NoObject

\* The effective result with the slip of never falling back to the retained one.
currentAnalyzeResponseNoFallback == analyzeResponse

currentAnalyzeResponse ==
  IF shouldShowLastValidVisualization
  THEN lastValidAnalyzeResponse
  ELSE analyzeResponse

\* The retained result with the slip of retaining only while there is source
\* text.
RetainedOnlyWithSource ==
  IF hasValidAnalyzeResponse /\ Trim(sourceCode) # <<>>
  THEN analyzeResponse
  ELSE lastValidAnalyzeResponse

RECURSIVE TopNodeLowest(_, _, _)
\* The reduce with the slip of keeping the node of greatest y.
TopNodeLowest(list, k, topNode) ==
  IF k > Len(list) THEN topNode
  ELSE TopNodeLowest(list, k + 1,
                     IF list[k].y > topNode.y THEN list[k] ELSE topNode)

RECURSIVE TopNode(_, _, _)
\* nodes.reduce((topNode, node) => node.position.y < topNode.position.y ?
\* node : topNode, nodes[0]), after the first k - 1 nodes.
TopNode(list, k, topNode) ==
  IF k > Len(list) THEN topNode
  ELSE TopNode(list, k + 1,
               IF list[k].y < topNode.y THEN list[k] ELSE topNode)

\* The label of one layer.
LabelNode(id, xPos, topNode, label) ==
  [id |-> id, type |-> "labelNode",
   x |-> xPos + (NODE_WIDTH \div 2) - 30,
   y |-> topNode.y - 50,
   label |-> label, draggable |-> FALSE, selectable |-> FALSE]

\* The memo of the label nodes: one per layer that has a node.
labelNodes ==
  (IF Len(stackNodes) > 0
   THEN <<LabelNode("stack-label", stackXCoordinate,
                    TopNode(stackNodes, 1, stackNodes[1]), "Stack")>>
   ELSE <<>>)
  \o
  (IF Len(heapNodes) > 0
   THEN <<LabelNode("heap-label", heapXCoordinate,
                    TopNode(heapNodes, 1, heapNodes[1]), "Heap")>>
   ELSE <<>>)

\* The nodes handed to ReactFlow.
FlowNodes == stackNodes \o heapNodes \o labelNodes

\* The edges handed to ReactFlow.
FlowEdges == stackConnections \o heapConnections

\* The first effect: memoryState.updateLastValidAnalyzeResponse(analyzeResponse)
\* when the result is valid; the value lastValidAnalyzeResponse holds after it.
RetainedResponse ==
  IF hasValidAnalyzeResponse
  THEN analyzeResponse
  ELSE lastValidAnalyzeResponse

\* The reset condition with the slip of leaving out the identity test.
ShouldResetAnyValid == hasValidAnalyzeResponse

\* The second effect's condition for memoryState.resetMemory().
ShouldReset ==
  /\ hasValidAnalyzeResponse
  /\ analyzeResponse.id # lastValidAnalyzeResponse.id

\* usePositionState's effect: the heap layer's x coordinate.
NewHeapXCoordinate ==
  ((windowWidth * visualizerPanelSize) \div 100) - NODE_WIDTH - 50

PositionEffectRuns ==
  ~mounted \/ deps.panel # visualizerPanelSize

\* useStackNodes' effect runs: one of its dependencies changed.
StackEffectRuns ==
  \/ ~mounted
  \/ deps.response # currentAnalyzeResponse.id
  \/ deps.theme # theme
  \/ deps.windowHeight # windowHeight

\* if (!analyzeResponse || !analyzeResponse.stack) return;
StackEffectBuilds ==
  /\ StackEffectRuns
  /\ currentAnalyzeResponse # NoObject
  /\ currentAnalyzeResponse.hasStack

\* The dependencies with the slip of leaving out stackNodes.
HeapEffectRunsWithoutStackNodes ==
  \/ ~mounted
  \/ deps.response # currentAnalyzeResponse.id
  \/ deps.heapX # heapXCoordinate
  \/ deps.theme # theme
  \/ deps.windowHeight # windowHeight

\* useHeapNodes' effect runs: one of its dependencies changed.
HeapEffectRuns ==
  \/ ~mounted
  \/ deps.response # currentAnalyzeResponse.id
  \/ stackNodesChanged
  \/ deps.heapX # heapXCoordinate
  \/ deps.theme # theme
  \/ deps.windowHeight # windowHeight

\* The guard reads analyzeResponse.stack.length: a TypeError when the result
\* has a heap field and no stack field.
HeapEffectThrows ==
  /\ HeapEffectRuns
  /\ currentAnalyzeResponse # NoObject
  /\ currentAnalyzeResponse.hasHeap
  /\ ~currentAnalyzeResponse.hasStack

\* The guard with the slip of leaving out the test of the stack list.
HeapEffectBuildsWithoutStackTest ==
  /\ HeapEffectRuns
  /\ currentAnalyzeResponse # NoObject
  /\ currentAnalyzeResponse.hasHeap
  /\ currentAnalyzeResponse.hasStack

\* if (!analyzeResponse || !analyzeResponse.heap ||
\*     analyzeResponse.stack.length === 0) return;
HeapEffectBuilds ==
  /\ HeapEffectRuns
  /\ currentAnalyzeResponse # NoObject
  /\ currentAnalyzeResponse.hasHeap
  /\ currentAnalyzeResponse.hasStack
  /\ Len(currentAnalyzeResponse.stack) # 0

\* The renders of one chain the model follows: a chain that reaches this
\* length is not followed further.
MaxRenders == 4

\* Render's guard: a render is scheduled and the component is alive.
RenderDue == pending /\ ~crashed /\ renders < MaxRenders

\* One render of Visualizer and the flush of its effects, in hook order:
\* usePositionState, retain last valid, reset, useStackNodes, useHeapNodes.
\* The heap builder reads the stackNodes of this render (not the list the stack
\* builder has just queued) and mutates those node objects in place.  An
\* effect that throws ends the component: nothing it queued is committed.
Render ==
  /\ RenderDue
  /\ UNCHANGED appVars
  /\ IF HeapEffectThrows
     THEN /\ crashed' = TRUE
          /\ pending' = FALSE
          /\ renders' = 0
          /\ didReset' = ShouldReset
          /\ UNCHANGED <<sourceCode, analyzeResponse, analyzeError, windowHeight,
                         visualizerPanelSize, theme, stackNodes, heapNodes,
                         stackConnections, heapConnections,
                         lastValidAnalyzeResponse, heapXCoordinate, mounted, deps,
                         stackNodesChanged>>
     ELSE
       \E stackColors \in
            [1..(IF StackEffectBuilds
                 THEN StackEdgeCount(currentAnalyzeResponse.stack) ELSE 0)
              -> Palette(theme)],
          heapColors \in
            [1..(IF HeapEffectBuilds
                 THEN HeapEdgeCount(currentAnalyzeResponse.heap, stackNodes) ELSE 0)
              -> Palette(theme)] :
         LET stackBuilt == BuildStack(currentAnalyzeResponse.stack, windowHeight,
                                      stackXCoordinate, stackColors)
             heapBuilt == BuildHeap(currentAnalyzeResponse.heap, stackNodes,
                                    windowHeight, heapXCoordinate, heapColors)
             newHeapX == IF PositionEffectRuns THEN NewHeapXCoordinate
                         ELSE heapXCoordinate
             newLastValid == RetainedResponse
             again == \/ newHeapX # heapXCoordinate
                      \/ newLastValid.id # lastValidAnalyzeResponse.id
                      \/ ShouldReset
                      \/ StackEffectBuilds
                      \/ HeapEffectBuilds
         IN /\ heapXCoordinate' = newHeapX
            /\ lastValidAnalyzeResponse' = newLastValid
            /\ stackNodes' =
                 IF StackEffectBuilds THEN stackBuilt.nodes
                 ELSE IF ShouldReset THEN <<>>
                 ELSE IF HeapEffectBuilds THEN heapBuilt.stack
                 ELSE stackNodes
            /\ stackConnections' =
                 IF StackEffectBuilds THEN stackBuilt.connections
                 ELSE IF ShouldReset THEN <<>>
                 ELSE stackConnections
            /\ heapNodes' =
                 IF HeapEffectBuilds THEN heapBuilt.nodes
                 ELSE IF ShouldReset THEN <<>>
                 ELSE heapNodes
            /\ heapConnections' =
                 IF HeapEffectBuilds THEN heapBuilt.connections
                 ELSE IF ShouldReset THEN <<>>
                 ELSE heapConnections
            /\ stackNodesChanged' = (StackEffectBuilds \/ ShouldReset)
            /\ pending' = again
            /\ renders' = IF again THEN renders + 1 ELSE 0
            /\ deps' = [response |-> currentAnalyzeResponse.id,
                        heapX |-> heapXCoordinate,
                        theme |-> theme,
                        windowHeight |-> windowHeight,
                        panel |-> visualizerPanelSize]
            /\ mounted' = TRUE
            /\ didReset' = ShouldReset
            /\ crashed' = FALSE
            /\ UNCHANGED <<sourceCode, analyzeResponse, analyzeError,
                           windowHeight, visualizerPanelSize, theme>>

-----------------------------------------------------------------------------
(* Index and the environment *)

\* What useQuery hands to Index for a query key: data of a successful fetch
\* (never together with a first error: the query function throws instead of
\* returning a result that has an error), or no data, with or without error.
QueryOutcomes ==
  {<<r, FALSE>> : r \in Catalogue} \cup {<<FreshEmpty, e>> : e \in BOOLEAN}

\* The editor changes the source text: Index renders with the query of the
\* new key (cached data, or none yet).
EditSource ==
  /\ ~crashed
  /\ UNCHANGED appVars
  /\ \E src \in Sources \ {sourceCode}, o \in QueryOutcomes :
       /\ sourceCode' = src
       /\ analyzeResponse' = o[1]
       /\ analyzeError' = o[2]
  /\ pending' = TRUE
  /\ renders' = 0
  /\ UNCHANGED <<windowHeight, visualizerPanelSize, theme, stackNodes, heapNodes,
                 stackConnections, heapConnections, lastValidAnalyzeResponse,
                 heapXCoordinate, mounted, deps, stackNodesChanged, crashed,
                 didReset>>

\* The query of the current key settles (or settles again after a refetch).
QuerySettles ==
  /\ ~crashed
  /\ UNCHANGED appVars
  /\ \E o \in QueryOutcomes :
       /\ analyzeResponse' = o[1]
       /\ analyzeError' = o[2]
       /\ renders' = IF o = <<analyzeResponse, analyzeError>> THEN renders ELSE 0
  /\ pending' = TRUE
  /\ UNCHANGED <<sourceCode, windowHeight, visualizerPanelSize, theme, stackNodes,
                 heapNodes, stackConnections, heapConnections,
                 lastValidAnalyzeResponse, heapXCoordinate, mounted, deps,
                 stackNodesChanged, crashed, didReset>>

\* A refetch of a query that has data fails: the data stays, the error is set.
RefetchFails ==
  /\ ~crashed
  /\ UNCHANGED appVars
  /\ analyzeResponse \in Catalogue
  /\ ~analyzeError
  /\ mounted /\ ~pending
  /\ analyzeError' = TRUE
  /\ pending' = TRUE
  /\ renders' = 0
  /\ UNCHANGED <<sourceCode, analyzeResponse, windowHeight, visualizerPanelSize,
                 theme, stackNodes, heapNodes, stackConnections, heapConnections,
                 lastValidAnalyzeResponse, heapXCoordinate, mounted, deps,
                 stackNodesChanged, crashed, didReset>>

\* The window is resized.
ResizeWindow ==
  /\ ~crashed
  /\ UNCHANGED appVars
  /\ mounted /\ ~pending
  /\ \E h \in WindowHeights \ {windowHeight} : windowHeight' = h
  /\ pending' = TRUE
  /\ renders' = 0
  /\ UNCHANGED <<sourceCode, analyzeResponse, analyzeError, visualizerPanelSize,
                 theme, stackNodes, heapNodes, stackConnections, heapConnections,
                 lastValidAnalyzeResponse, heapXCoordinate, mounted, deps,
                 stackNodesChanged, crashed, didReset>>

\* The panel split is dragged.
ResizePanel ==
  /\ ~crashed
  /\ UNCHANGED appVars
  /\ mounted /\ ~pending
  /\ \E s \in PanelSizes \ {visualizerPanelSize} : visualizerPanelSize' = s
  /\ pending' = TRUE
  /\ renders' = 0
  /\ UNCHANGED <<sourceCode, analyzeResponse, analyzeError, windowHeight, theme,
                 stackNodes, heapNodes, stackConnections, heapConnections,
                 lastValidAnalyzeResponse, heapXCoordinate, mounted, deps,
                 stackNodesChanged, crashed, didReset>>

\* The theme is switched.
SwitchTheme ==
  /\ ~crashed
  /\ UNCHANGED appVars
  /\ mounted /\ ~pending
  /\ \E t \in Themes \ {theme} : theme' = t
  /\ pending' = TRUE
  /\ renders' = 0
  /\ UNCHANGED <<sourceCode, analyzeResponse, analyzeError, windowHeight,
                 visualizerPanelSize, stackNodes, heapNodes, stackConnections,
                 heapConnections, lastValidAnalyzeResponse, heapXCoordinate,
                 mounted, deps, stackNodesChanged, crashed, didReset>>

NoDeps ==
  [response |-> 0, heapX |-> 0, theme |-> Undefined, windowHeight |-> 0,
   panel |-> 0]

-----------------------------------------------------------------------------
(* useUpdates: the update state of the desktop build (appInfo.isDesktop;   *)
(* in the browser build every operation returns at once and no listener is *)
(* registered).  Every setUpdateState call passes an updater function, so  *)
(* each one is applied to the state it finds.                              *)

\* progress is null or an event; only the event's type is read.
NoProgress == "null"
ProgressTypes == {"Started", "Downloading", "Installing", "Completed", "Failed"}

\* updateCheckStatus is null or a status; its message follows from its type.
NoStatus == "null"

\* the commands awaited at once and the status timers armed at once
MaxCalls == 2

InitialUpdateState ==
  [isUpdateAvailable |-> FALSE, isUpdateModalOpen |-> FALSE,
   isInstalling |-> FALSE, progress |-> NoProgress,
   updateCheckStatus |-> NoStatus]

\* the 'update-available' listener
AvailableState(prev, updateAvailable) ==
  [prev EXCEPT !.isUpdateAvailable = updateAvailable,
               !.isUpdateModalOpen = updateAvailable]

\* the 'update-progress' listener
ProgressState(prev, type) ==
  [prev EXCEPT !.progress = type,
               !.isInstalling =
                  \/ type = "Started"
                  \/ (prev.isInstalling /\ type # "Completed" /\ type # "Failed")]

CheckedStateOpeningModal(prev, result) ==
  [prev EXCEPT !.isUpdateAvailable = result,
               !.isUpdateModalOpen = TRUE,
               !.updateCheckStatus = IF result THEN "success" ELSE "info"]

\* checkForUpdates, the command returned result
CheckedState(prev, result) ==
  [prev EXCEPT !.isUpdateAvailable = result,
               !.isUpdateModalOpen = result,
               !.updateCheckStatus = IF result THEN "success" ELSE "info"]

\* checkForUpdates, the command threw
CheckFailedState(prev) == [prev EXCEPT !.updateCheckStatus = "error"]

\* the timer armed by checkForUpdates
StatusClearedState(prev) == [prev EXCEPT !.updateCheckStatus = NoStatus]

\* installUpdate, before the command is awaited
InstallStartedState(prev) ==
  [prev EXCEPT !.isInstalling = TRUE, !.progress = "Started"]

\* installUpdate, the command returned false or threw
InstallFailedState(prev) ==
  [prev EXCEPT !.progress = "Failed", !.isInstalling = FALSE]

ClosedStateKeepingInstall(prev) ==
  [prev EXCEPT !.isUpdateModalOpen = FALSE, !.progress = NoProgress]

\* closeUpdateModal
ClosedState(prev) ==
  [prev EXCEPT !.isUpdateModalOpen = FALSE, !.progress = NoProgress,
               !.isInstalling = FALSE]

\* What an awaited command does: it returns true, returns false, or throws.
CommandOutcomes == {"true", "false", "throws"}

NotUpdates == <<settings, fonts, localStorage, queryCache>>

UpdateAvailableEvent ==
  /\ \E updateAvailable \in BOOLEAN :
       updateState' = AvailableState(updateState, updateAvailable)
  /\ UNCHANGED <<updateCalls, visVars, NotUpdates>>

UpdateProgressEvent ==
  /\ \E type \in ProgressTypes :
       updateState' = ProgressState(updateState, type)
  /\ UNCHANGED <<updateCalls, visVars, NotUpdates>>

\* checkForUpdates up to its await
CheckForUpdates ==
  /\ updateCalls.checks + updateCalls.timers < MaxCalls
  /\ updateCalls' = [updateCalls EXCEPT !.checks = @ + 1]
  /\ UNCHANGED <<updateState, visVars, NotUpdates>>

\* checkForUpdates from its await on
CheckForUpdatesSettles ==
  /\ updateCalls.checks > 0
  /\ \E outcome \in CommandOutcomes :
       updateState' = IF outcome = "throws"
                      THEN CheckFailedState(updateState)
                      ELSE CheckedState(updateState, outcome = "true")
  /\ updateCalls' = [updateCalls EXCEPT !.checks = @ - 1, !.timers = @ + 1]
  /\ UNCHANGED <<visVars, NotUpdates>>

StatusTimeout ==
  /\ updateCalls.timers > 0
  /\ updateState' = StatusClearedState(updateState)
  /\ updateCalls' = [updateCalls EXCEPT !.timers = @ - 1]
  /\ UNCHANGED <<visVars, NotUpdates>>

\* installUpdate up to its await
InstallUpdate ==
  /\ updateCalls.installs < MaxCalls
  /\ updateState' = InstallStartedState(updateState)
  /\ updateCalls' = [updateCalls EXCEPT !.installs = @ + 1]
  /\ UNCHANGED <<visVars, NotUpdates>>

\* installUpdate from its await on
InstallUpdateSettles ==
  /\ updateCalls.installs > 0
  /\ \E outcome \in CommandOutcomes :
       updateState' = IF outcome = "true"
                      THEN updateState
                      ELSE InstallFailedState(updateState)
  /\ updateCalls' = [updateCalls EXCEPT !.installs = @ - 1]
  /\ UNCHANGED <<visVars, NotUpdates>>

CloseUpdateModal ==
  /\ updateState' = ClosedState(updateState)
  /\ UNCHANGED <<updateCalls, visVars, NotUpdates>>

UpdatesNext ==
  \/ UpdateAvailableEvent
  \/ UpdateProgressEvent
  \/ CheckForUpdates
  \/ CheckForUpdatesSettles
  \/ StatusTimeout
  \/ InstallUpdate
  \/ InstallUpdateSettles
  \/ CloseUpdateModal

-----------------------------------------------------------------------------
(* useLanguage: the compressed form of a source text and the query key     *)
(* made of it.  A text is a sequence of one-character strings.             *)

\* String.prototype.charCodeAt for the characters the texts are made of
charCodeAt(c) ==
  CASE c = "\t" -> 9
    [] c = "\n" -> 10
    [] c = "\r" -> 13
    [] c = " " -> 32
    [] c = "*" -> 42
    [] c = "/" -> 47
    [] c = "A" -> 65
    [] c = "B" -> 66
    [] c = "a" -> 97
    [] c = "x" -> 120

RECURSIVE LineCommentEnd(_, _)
\* the inner loop of a // comment: the index of the next "\n", or past the end
LineCommentEnd(s, i) ==
  IF i <= Len(s) /\ s[i] # "\n" THEN LineCommentEnd(s, i + 1) ELSE i

RECURSIVE BlockCommentEnd(_, _)
\* the inner loop of a /* comment, entered past the opening two characters:
\* it runs while i < sourceCode.length - 1 (i is one more here: indices
\* start at 1)
BlockCommentEnd(s, i) ==
  IF i < Len(s)
  THEN IF s[i] = "*" /\ s[i + 1] = "/"
       THEN i + 2
       ELSE BlockCommentEnd(s, i + 1)
  ELSE i

RECURSIVE KeptFrom(_, _)
\* the outer loop of removeComments from index i on: the indices of the
\* characters appended to result
KeptFrom(s, i) ==
  IF i > Len(s) THEN <<>>
  ELSE IF i < Len(s) /\ s[i] = "/" /\ s[i + 1] = "/"
       THEN KeptFrom(s, LineCommentEnd(s, i))
  ELSE IF i < Len(s) /\ s[i] = "/" /\ s[i + 1] = "*"
       THEN KeptFrom(s, BlockCommentEnd(s, i + 2))
  ELSE <<i>> \o KeptFrom(s, i + 1)

removeComments(s) ==
  LET kept == KeptFrom(s, 1) IN [k \in 1..Len(kept) |-> s[kept[k]]]

RECURSIVE ReplaceCrLf(_)
\* .replace(/\r\n/g, '\n')
ReplaceCrLf(s) ==
  IF s = <<>> THEN <<>>
  ELSE IF Len(s) > 1 /\ s[1] = "\r" /\ s[2] = "\n"
       THEN <<"\n">> \o ReplaceCrLf(SubSeq(s, 3, Len(s)))
  ELSE <<Head(s)>> \o ReplaceCrLf(Tail(s))

RECURSIVE SplitLines(_, _)
\* .split('\n'): line is the line being read
SplitLines(s, line) ==
  IF s = <<>> THEN <<line>>
  ELSE IF Head(s) = "\n" THEN <<line>> \o SplitLines(Tail(s), <<>>)
  ELSE SplitLines(Tail(s), Append(line, Head(s)))

\* .map((line) => line.trim()).filter((line) => line.length > 0)
TrimmedLines(lines) ==
  SelectSeq([k \in 1..Len(lines) |-> Trim(lines[k])], LAMBDA line : line # <<>>)

RECURSIVE JoinLines(_)
\* .join('\n')
JoinLines(lines) ==
  IF lines = <<>> THEN <<>>
  ELSE IF Len(lines) = 1 THEN lines[1]
  ELSE lines[1] \o <<"\n">> \o JoinLines(Tail(lines))

RECURSIVE CollapseWhitespace(_)
\* .replace(/\s+/g, ' ')
CollapseWhitespace(s) ==
  IF s = <<>> THEN <<>>
  ELSE IF IsSpace(Head(s))
       THEN <<" ">> \o CollapseWhitespace(TrimStart(s))
  ELSE <<Head(s)>> \o CollapseWhitespace(Tail(s))

normalizeWhitespace(s) ==
  Trim(CollapseWhitespace(JoinLines(TrimmedLines(SplitLines(ReplaceCrLf(s), <<>>)))))

compressSourceCode(s) == normalizeWhitespace(removeComments(s))

\* A 32-bit integer is kept as two 16-bit halves of its two's complement.
RECURSIVE HashFrom(_, _)
\* the loop of createSourceCodeKey: hash = (hash << 5) - hash + char, cut
\* to 32 bits by hash & hash
HashFrom(compressed, hash) ==
  IF compressed = <<>> THEN hash
  ELSE LET low == 31 * hash.lo + charCodeAt(Head(compressed))
       IN HashFrom(Tail(compressed),
                   [hi |-> (31 * hash.hi + (low \div Half)) % Half,
                    lo |-> low % Half])

\* Math.abs of a 32-bit integer
MathAbs(hash) ==
  IF hash.hi < Half \div 2 THEN hash
  ELSE [hi |-> (Half - hash.hi - (IF hash.lo > 0 THEN 1 ELSE 0)) % Half,
        lo |-> (Half - hash.lo) % Half]

Base36Digits ==
  <<"0", "1", "2", "3", "4", "5", "6", "7", "8", "9", "a", "b", "c", "d", "e",
    "f", "g", "h", "i", "j", "k", "l", "m", "n", "o", "p", "q", "r", "s", "t",
    "u", "v", "w", "x", "y", "z">>

RECURSIVE Base36(_)
\* n.toString(36) for 0 <= n < 2^31
Base36(n) ==
  IF n < 36 THEN Base36Digits[n + 1]
  ELSE Base36(n \div 36) \o Base36Digits[(n % 36) + 1]

\* Math.abs(hash).toString(36); the one magnitude above 2^31 - 1 is 2^31
AbsToString36(hash) ==
  LET abs == MathAbs(hash)
  IN IF abs.hi = Half \div 2 THEN "zik0zk" ELSE Base36(abs.hi * Half + abs.lo)

createSourceCodeKey(s) ==
  LET compressed == compressSourceCode(s)
  IN "source_" \o AbsToString36(HashFrom(compressed, [hi |-> 0, lo |-> 0]))
       \o "_" \o ToString(Len(compressed))

(* useAnalyzeSourceCode: the query is registered under                     *)
(* ['analyzeSourceCode', createSourceCodeKey(sourceCode)].  The cache      *)
(* holds, per key, the data of the last successful analysis; the data is   *)
(* named by the text the language service analysed.                        *)

NoData == <<"no data">>

\* the entries the cache holds at once
MaxCached == 1

\* data of useQuery for the text in the editor
QueryData ==
  IF \E entry \in queryCache : entry.key = createSourceCodeKey(sourceCode)
  THEN (CHOOSE entry \in queryCache :
          entry.key = createSourceCodeKey(sourceCode)).text
  ELSE NoData

\* queryFn resolved: the analysis of the editor's text is stored under its key
AnalysisSucceeds ==
  /\ \/ \E entry \in queryCache : entry.key = createSourceCodeKey(sourceCode)
     \/ Cardinality(queryCache) < MaxCached
  /\ queryCache' =
       {entry \in queryCache : entry.key # createSourceCodeKey(sourceCode)}
         \cup {[key |-> createSourceCodeKey(sourceCode), text |-> sourceCode]}
  /\ UNCHANGED <<visVars, updateState, updateCalls, settings, fonts, localStorage>>

\* The texts typed where the key is looked at.
MaxKeyTextLen == 2
KeyChars == {"A", "a", "B"}
KeyTexts == UNION {[1..n -> KeyChars] : n \in 0..MaxKeyTextLen}

\* Index: the editor's onChange, with another text.  (What the change does to
\* the props of Visualizer is EditSource; here the query data is QueryData.)
TypeSource ==
  /\ \E text \in KeyTexts \ {sourceCode} : sourceCode' = text
  /\ pending' = TRUE
  /\ renders' = 0
  /\ UNCHANGED <<analyzeResponse, analyzeError, windowHeight, visualizerPanelSize,
                 theme, stackNodes, heapNodes, stackConnections, heapConnections,
                 lastValidAnalyzeResponse, heapXCoordinate, mounted, deps,
                 stackNodesChanged, crashed, didReset, appVars>>

\* gcTime passed for a query nothing observes
CacheCollects ==
  /\ \E entry \in queryCache :
       /\ entry.key # createSourceCodeKey(sourceCode)
       /\ queryCache' = queryCache \ {entry}
  /\ UNCHANGED <<visVars, updateState, updateCalls, settings, fonts, localStorage>>

QueryNext ==
  \/ TypeSource
  \/ AnalysisSucceeds
  \/ CacheCollects

-----------------------------------------------------------------------------
(* useEditorSettingsStore: the editor settings and their copy in           *)
(* localStorage under 'editor-settings' (typeof window !== 'undefined'     *)
(* holds in the webview and in the browser).                               *)

DEFAULT_SETTINGS ==
  [fontFamily |-> "Courier New", fontSize |-> 14, showHeapLockIcon |-> TRUE]

SettingsKeys == <<"fontFamily", "fontSize", "showHeapLockIcon">>

\* { ...a, ...b }
Spread(a, b) ==
  [k \in DOMAIN a \cup DOMAIN b |-> IF k \in DOMAIN b THEN b[k] ELSE a[k]]

\* An item of localStorage: absent (getItem returns null), or a string.  A
\* string is kept as what JSON.parse makes of it: it throws (parses = FALSE),
\* or it reads an object, whose members are kept in the order of the text.
NoItem == [present |-> FALSE, empty |-> FALSE, parses |-> FALSE, members |-> <<>>]
EmptyText == [present |-> TRUE, empty |-> TRUE, parses |-> FALSE, members |-> <<>>]
BrokenText == [present |-> TRUE, empty |-> FALSE, parses |-> FALSE, members |-> <<>>]
ObjectText(members) ==
  [present |-> TRUE, empty |-> FALSE, parses |-> TRUE, members |-> members]

JsonStringifyWithoutBooleans(object) ==
  ObjectText(SelectSeq([k \in 1..Len(SettingsKeys) |->
                          <<SettingsKeys[k], object[SettingsKeys[k]]>>],
                       LAMBDA member : member[1] # "showHeapLockIcon"))

\* JSON.stringify of a settings object: its members in the order of its keys
\* (a string, an integer and a boolean are written as they are read back)
JsonStringify(object) ==
  ObjectText([k \in 1..Len(SettingsKeys) |->
                <<SettingsKeys[k], object[SettingsKeys[k]]>>])

\* JSON.parse of a text that reads an object: of two members with one key the
\* later one counts
JsonParse(text) ==
  [k \in {text.members[n][1] : n \in 1..Len(text.members)} |->
     LET last == CHOOSE n \in 1..Len(text.members) :
                   /\ text.members[n][1] = k
                   /\ \A m \in (n + 1)..Len(text.members) : text.members[m][1] # k
     IN text.members[last][2]]

MathMin(a, b) == IF a < b THEN a ELSE b
MathMax(a, b) == IF a > b THEN a ELSE b

\* updateSettings(newSettings)
updateSettings(newSettings) ==
  LET updated == Spread(settings, newSettings)
  IN /\ localStorage' = JsonStringify(updated)
     /\ settings' = updated

NotStore == <<updateState, updateCalls, queryCache>>

\* What the callers pass.
FontFamilies == {"Courier New", "Arial"}
FontSizes == {7, 8, 20, 32, 33}
Partials ==
  {[fontFamily |-> "Arial"], [fontSize |-> 20], [fontSize |-> 40],
   [showHeapLockIcon |-> FALSE], [fontFamily |-> "Arial", fontSize |-> 9]}

UpdateSettings ==
  /\ \E newSettings \in Partials : updateSettings(newSettings)
  /\ UNCHANGED <<fonts, visVars, NotStore>>

SetFontFamily ==
  /\ \E fontFamily \in FontFamilies : updateSettings([fontFamily |-> fontFamily])
  /\ UNCHANGED <<fonts, visVars, NotStore>>

\* setFontSize: the size passed to updateSettings.  The argument is the
\* number n, or the function currentSize => currentSize + n.
SetFontSizeClamped(currentSize, isFunction, n) ==
  LET newSize == IF isFunction THEN currentSize + n ELSE n
  IN MathMax(8, MathMin(32, newSize))

SetFontSize ==
  /\ \E isFunction \in BOOLEAN :
       \E n \in (IF isFunction THEN {-1, 1} ELSE FontSizes) :
         updateSettings(
           [fontSize |-> SetFontSizeClamped(settings.fontSize, isFunction, n)])
  /\ UNCHANGED <<fonts, visVars, NotStore>>

ToggleHeapLockIcon ==
  /\ updateSettings([showHeapLockIcon |-> ~settings.showHeapLockIcon])
  /\ UNCHANGED <<fonts, visVars, NotStore>>

ResetToDefaults ==
  /\ settings' = DEFAULT_SETTINGS
  /\ localStorage' = JsonStringify(DEFAULT_SETTINGS)
  /\ UNCHANGED <<fonts, visVars, NotStore>>

\* initializeStore: the settings it leaves.  if (stored) passes over null and
\* over the empty string.
InitializedSettings(current, stored) ==
  IF ~stored.present \/ stored.empty THEN current
  ELSE IF stored.parses THEN Spread(DEFAULT_SETTINGS, JsonParse(stored))
  ELSE DEFAULT_SETTINGS

InitialFonts ==
  [availableFonts |-> "FALLBACK_FONTS", fontsLoading |-> FALSE,
   fontsError |-> FALSE, fetches |-> 0]

\* fetchSystemFonts up to its await (the desktop build)
FetchStarted(prev) ==
  [prev EXCEPT !.fontsLoading = TRUE, !.fontsError = FALSE, !.fetches = @ + 1]

\* fetchSystemFonts from its await on: the command returned the fonts, or threw
FetchSettled(prev, returned) ==
  [availableFonts |-> IF returned THEN "systemFonts" ELSE prev.availableFonts,
   fontsLoading |-> FALSE,
   fontsError |-> IF returned THEN prev.fontsError ELSE TRUE,
   fetches |-> prev.fetches - 1]

InitializeStore ==
  /\ fonts.fetches < MaxCalls
  /\ settings' = InitializedSettings(settings, localStorage)
  /\ fonts' = FetchStarted(fonts)
  /\ UNCHANGED <<localStorage, visVars, NotStore>>

\* the toolbar's refresh button
FetchSystemFonts ==
  /\ fonts.fetches < MaxCalls
  /\ fonts' = FetchStarted(fonts)
  /\ UNCHANGED <<settings, localStorage, visVars, NotStore>>

FetchSystemFontsSettles ==
  /\ fonts.fetches > 0
  /\ \E returned \in BOOLEAN : fonts' = FetchSettled(fonts, returned)
  /\ UNCHANGED <<settings, localStorage, visVars, NotStore>>

StoreNext ==
  \/ UpdateSettings
  \/ SetFontFamily
  \/ SetFontSize
  \/ ToggleHeapLockIcon
  \/ ResetToDefaults
  \/ InitializeStore
  \/ FetchSystemFonts
  \/ FetchSystemFontsSettles

\* What an earlier session, or another version of the program, left in
\* localStorage.
StoredItems ==
  {NoItem, EmptyText, BrokenText, ObjectText(<<>>),
   ObjectText(<<<<"fontSize", 100>>>>),
   ObjectText(<<<<"fontFamily", "Arial">>, <<"showHeapLockIcon", FALSE>>>>),
   ObjectText(<<<<"fontSize", 12>>, <<"fontSize", 10>>>>),
   JsonStringify(DEFAULT_SETTINGS)}

\* The application before any of its operations ran.
AppInitWith(stored) ==
  /\ updateState = InitialUpdateState
  /\ updateCalls = [checks |-> 0, installs |-> 0, timers |-> 0]
  /\ settings = DEFAULT_SETTINGS
  /\ fonts = InitialFonts
  /\ localStorage = stored
  /\ queryCache = {}

AppInit == AppInitWith(NoItem)

-----------------------------------------------------------------------------
(* The specifications *)

\* The state at mount: Index starts with an empty source and a query without
\* data; every useState holds its initial value.
MountedWith(text) ==
  /\ sourceCode = text
  /\ analyzeResponse = Response(-1, TRUE, <<>>, TRUE, <<>>)
  /\ analyzeError = FALSE
  /\ windowHeight = 600
  /\ visualizerPanelSize = 50
  /\ theme = "dark"
  /\ stackNodes = <<>>
  /\ heapNodes = <<>>
  /\ stackConnections = <<>>
  /\ heapConnections = <<>>
  /\ lastValidAnalyzeResponse = NoObject
  /\ heapXCoordinate = 0
  /\ mounted = FALSE
  /\ deps = NoDeps
  /\ stackNodesChanged = FALSE
  /\ pending = TRUE
  /\ crashed = FALSE
  /\ didReset = FALSE
  /\ renders = 0

Init == MountedWith(<<>>) /\ AppInit

Next ==
  \/ Render
  \/ EditSource
  \/ QuerySettles
  \/ RefetchFails
  \/ ResizeWindow
  \/ ResizePanel
  \/ SwitchTheme

Spec == Init /\ [][Next]_vars

\* One change of the inputs at a time: the next change comes when the renders
\* the last one caused are through.
SteppedNext ==
  \/ Render
  \/ ~pending /\ EditSource
  \/ ~pending /\ QuerySettles
  \/ ~pending /\ RefetchFails
  \/ ~pending /\ ResizeWindow
  \/ ~pending /\ ResizePanel
  \/ ~pending /\ SwitchTheme

\* React runs a scheduled render: a render that is due is not put off for
\* ever.  This is WF_vars(Render) with ENABLED <<Render>>_vars written out as
\* RenderDue (a due render always changes the state).
SteppedSpec ==
  /\ Init
  /\ [][SteppedNext]_vars
  /\ ([]<>(~RenderDue) \/ []<><<Render>>_vars)

\* The update state alone.
UpdatesSpec == Init /\ [][UpdatesNext]_vars

\* The settings store alone, started on what localStorage may hold.
InitStore ==
  /\ MountedWith(<<>>)
  /\ \E stored \in StoredItems : AppInitWith(stored)

StoreSpec == InitStore /\ [][StoreNext]_vars

\* The editor's text and the query cache alone.
QuerySpec == Init /\ [][QueryNext]_vars

\* The texts compressed: every text of a few characters, comment marks,
\* blanks and line ends among them.
MaxSourceLen == 4
SourceChars == {"/", "*", "a", " ", "\n", "\r"}
SourceTexts == UNION {[1..n -> SourceChars] : n \in 0..MaxSourceLen}

InitCompress ==
  /\ \E text \in SourceTexts : MountedWith(text)
  /\ AppInit

CompressNext == AnalysisSucceeds

CompressSpec == InitCompress /\ [][CompressNext]_vars

-----------------------------------------------------------------------------
(* The builders on bounded inputs: one result object is mounted and rendered
   until the effects settle. *)

MaxStackLen == 3
MaxHeapLen == 2

StackSymbols ==
  {VariableSymbol("x", 4, "12", "Integer"),
   VariableSymbol("y", 1, Undefined, "Char"),
   PointerSymbol("p", 8, "x"),
   PointerSymbol("p", 8, Undefined),
   PointerSymbol("q", 8, "p"),
   PointerSymbol("q", 8, "z"),
   VariableSymbol("freed", 2, "1", "Integer"),
   OtherSymbol("r", 4)}

HeapBlocks ==
  {HeapBlock(4, "Allocated", "int", "p", {}),
   HeapBlock(4, "Allocated", "int", "p", {"q"}),
   HeapBlock(2, "Free", Undefined, Undefined, {"q"}),
   HeapBlock(4, "Free", "int", "p", {"p"}),
   HeapBlock(1, "Unallocated", Undefined, "p", {}),
   HeapBlock(3, "Leaked", Undefined, Undefined, {})}

\* The sequences over S of length at most n.
SeqsUpTo(S, n) == UNION {[1..k -> S] : k \in 0..n}

\* The stack lists the heap inputs are combined with.
PointerStacks ==
  {<<PointerSymbol("p", 8, Undefined)>>,
   <<PointerSymbol("p", 8, Undefined), PointerSymbol("q", 8, "p")>>,
   <<PointerSymbol("p", 8, Undefined), PointerSymbol("p", 8, Undefined)>>,
   <<PointerSymbol("q", 8, "p"), PointerSymbol("q", 8, "z")>>,
   <<VariableSymbol("x", 4, "12", "Integer"), PointerSymbol("p", 8, "x")>>}

\* The heap lists the stack inputs are combined with.
SomeHeaps ==
  {<<>>, <<HeapBlock(4, "Allocated", "int", "p", {})>>}

BuildInputs ==
  (SeqsUpTo(StackSymbols, MaxStackLen) \X SomeHeaps)
    \cup (PointerStacks \X SeqsUpTo(HeapBlocks, MaxHeapLen))

InitBuild ==
  /\ sourceCode = <<"x", " ">>
  /\ \E in \in BuildInputs :
       analyzeResponse = Response(1, TRUE, in[1], TRUE, in[2])
  /\ analyzeError = FALSE
  /\ windowHeight = 600
  /\ visualizerPanelSize = 50
  /\ theme = "dark"
  /\ stackNodes = <<>>
  /\ heapNodes = <<>>
  /\ stackConnections = <<>>
  /\ heapConnections = <<>>
  /\ lastValidAnalyzeResponse = NoObject
  /\ heapXCoordinate = 0
  /\ mounted = FALSE
  /\ deps = NoDeps
  /\ stackNodesChanged = FALSE
  /\ pending = TRUE
  /\ crashed = FALSE
  /\ didReset = FALSE
  /\ renders = 0
  /\ AppInit

NextBuild == Render

BuildSpec == InitBuild /\ [][NextBuild]_vars

-----------------------------------------------------------------------------
(* Properties of the builders, under BuildSpec *)

\* Variable and Pointer are the well-formed variants.
WellFormed(symbol) == symbol.kind \in {"Variable", "Pointer"}

RECURSIVE SumSizes(_, _)
\* The sum of the sizes of the first k entries of a list.
SumSizes(list, k) == IF k = 0 THEN 0 ELSE SumSizes(list, k - 1) + list[k].size

\* The well-formed entries of the mounted result's stack list, in input order.
KeptSymbols == SelectSeq(analyzeResponse.stack, WellFormed)

DistinctNames ==
  \A i, j \in 1..Len(KeptSymbols) :
    i # j => KeptSymbols[i].name # KeptSymbols[j].name

\* C6 (no silent drops): once mounted, the stack nodes are one per Variable or
\* Pointer entry, in input order, with the entry's name as id; the address and
\* the vertical position of each node are those obtained from the well-formed
\* entries alone, so an entry of another variant moves neither cursor.
C6_NoSilentDrops ==
  mounted =>
    /\ Len(stackNodes) = Len(KeptSymbols)
    /\ \A i \in 1..Len(KeptSymbols) :
         /\ stackNodes[i].id = KeptSymbols[i].name
         /\ stackNodes[i].size = KeptSymbols[i].size
         /\ stackNodes[i].address =
              FormatAddress(AddrAdd(StackBaseAddress, SumSizes(KeptSymbols, i - 1)))
         /\ stackNodes[i].y =
              windowHeight - HEIGHT_OFFSET
                - BASE_NODE_HEIGHT * SumSizes(KeptSymbols, i)

\* A stack list with an entry of unknown variant between two well-formed
\* entries has been built.
C6_Witness ==
  /\ mounted
  /\ Len(analyzeResponse.stack) = 3
  /\ WellFormed(analyzeResponse.stack[1])
  /\ ~WellFormed(analyzeResponse.stack[2])
  /\ WellFormed(analyzeResponse.stack[3])
  /\ Len(stackNodes) = 2

\* node i + 1 of a layer has the address of node i plus the size of node i
ConsecutiveAddresses(nodes, base) ==
  \A i \in 1..(Len(nodes) - 1) :
    \E n \in 0..SumSizes(nodes, Len(nodes)) :
      /\ nodes[i].address = FormatAddress(AddrAdd(base, n))
      /\ nodes[i + 1].address = FormatAddress(AddrAdd(base, n + nodes[i].size))

\* C7 (address monotonicity): the first stack node has address 0xBFFFFFFF and
\* the first heap node 0x400000 (the value 0x00400000 as toString(16) prints
\* it); consecutive nodes of a layer differ by the size of the earlier one; the
\* heap layer has one node per block, of whatever state, with the block's size.
C7_AddressMonotonicity ==
  /\ Len(stackNodes) > 0 => stackNodes[1].address = "0xBFFFFFFF"
  /\ ConsecutiveAddresses(stackNodes, StackBaseAddress)
  /\ Len(heapNodes) > 0 =>
       /\ heapNodes[1].address = "0x400000"
       /\ Len(heapNodes) = Len(analyzeResponse.heap)
       /\ \A k \in 1..Len(heapNodes) :
            heapNodes[k].size = analyzeResponse.heap[k].size
  /\ ConsecutiveAddresses(heapNodes, HeapBaseAddress)

\* Two stack nodes and two heap nodes, the first heap block Unallocated.
C7_Witness ==
  /\ Len(stackNodes) = 2
  /\ Len(heapNodes) = 2
  /\ analyzeResponse.heap[1].block_state = "Unallocated"
  /\ heapNodes[2].address = "0x400001"

\* C8 (dangling coloring): every stack-to-heap edge whose source is in the
\* danglingPointerIds of the edge's block is red, and the stack nodes of that
\* id carry the metadata "Dangling Pointer", also when the id is the block's
\* currentPointerId.
C8_DanglingColoring ==
  \A k \in 1..Len(heapNodes), e \in 1..Len(heapConnections) :
    (/\ heapConnections[e].target = heapNodes[k].id
     /\ heapConnections[e].source \in analyzeResponse.heap[k].dangling)
    => /\ heapConnections[e].stroke = "red"
       /\ \A s \in 1..Len(stackNodes) :
            stackNodes[s].id = heapConnections[e].source
              => stackNodes[s].metadata = "Dangling Pointer"

\* An edge from a stack node that is both the current and a dangling pointer
\* of its block.
C8_Witness ==
  \E k \in 1..Len(heapNodes), e \in 1..Len(heapConnections) :
    /\ heapConnections[e].target = heapNodes[k].id
    /\ heapConnections[e].source \in analyzeResponse.heap[k].dangling
    /\ heapConnections[e].source = analyzeResponse.heap[k].current

\* the positions of the stack connections from source to target
EdgesBetween(source, target) ==
  {e \in 1..Len(stackConnections) :
     /\ stackConnections[e].source = source
     /\ stackConnections[e].target = target}

\* C10 (intra-stack pointer resolution): in the stack builder's output for a
\* stack list with pairwise distinct names, a Pointer entry whose target names a
\* stack node t, before or after it, has exactly one edge to t, with id
\* "e<p>-<t>", shows "&<t>" and points to t's address; a Pointer entry whose
\* target is null or names no stack node has no edge and an empty value; and
\* there is no other edge.
C10_PointerResolution ==
  (mounted /\ stackNodesChanged /\ DistinctNames) =>
    /\ \A i \in 1..Len(KeptSymbols) :
         KeptSymbols[i].kind = "Pointer" =>
           LET targets == {j \in 1..Len(KeptSymbols) :
                             /\ KeptSymbols[i].target # Undefined
                             /\ KeptSymbols[j].name = KeptSymbols[i].target}
           IN IF targets # {}
              THEN \A j \in targets :
                     /\ Cardinality(EdgesBetween(KeptSymbols[i].name,
                                                 KeptSymbols[j].name)) = 1
                     /\ \A e \in EdgesBetween(KeptSymbols[i].name,
                                               KeptSymbols[j].name) :
                          stackConnections[e].id =
                            "e" \o KeptSymbols[i].name \o "-" \o KeptSymbols[j].name
                     /\ stackNodes[i].value = "&" \o KeptSymbols[j].name
                     /\ stackNodes[i].pointingToAddress = stackNodes[j].address
              ELSE /\ \A e \in 1..Len(stackConnections) :
                        stackConnections[e].source # KeptSymbols[i].name
                   /\ stackNodes[i].value = ""
    /\ \A e \in 1..Len(stackConnections) :
         \E i \in 1..Len(KeptSymbols) :
           /\ KeptSymbols[i].kind = "Pointer"
           /\ KeptSymbols[i].name = stackConnections[e].source
           /\ KeptSymbols[i].target = stackConnections[e].target

\* The stack builder's output for a pointer that stands before its target.
C10_Witness ==
  /\ mounted /\ stackNodesChanged /\ DistinctNames
  /\ Len(stackNodes) >= 2
  /\ stackNodes[1].type = "Pointer"
  /\ stackNodes[1].value = "&x"
  /\ stackNodes[2].id = "x"
  /\ Len(stackConnections) = 1

\* The heap builder has run against the present stack nodes of a result whose
\* stack list is not empty.
HeapResolved ==
  /\ mounted
  /\ ~stackNodesChanged
  /\ Len(analyzeResponse.stack) > 0

\* stack node s is the current pointer or a dangling pointer of block k
Related(s, k) ==
  \/ /\ analyzeResponse.heap[k].current # Undefined
     /\ stackNodes[s].id = analyzeResponse.heap[k].current
  \/ stackNodes[s].id \in analyzeResponse.heap[k].dangling

\* the positions of the stack-to-heap edges from source to target
HeapEdgesBetween(source, target) ==
  {e \in 1..Len(heapConnections) :
     /\ heapConnections[e].source = source
     /\ heapConnections[e].target = target}

\* C11 (stack-to-heap edge set): once the heap builder has resolved the blocks
\* against the stack nodes, there is one heap node per block, and for every
\* block b and stack node s the edges from s.id to b's node are as many as the
\* stack nodes of that id when b is not Unallocated and s.id is b's current
\* pointer or one of its dangling pointers, and none otherwise; every edge
\* joins a stack node to a heap node.
C11_StackToHeapEdgeSet ==
  HeapResolved =>
    /\ Len(heapNodes) = Len(analyzeResponse.heap)
    /\ \A k \in 1..Len(heapNodes), s \in 1..Len(stackNodes) :
         Cardinality(HeapEdgesBetween(stackNodes[s].id, heapNodes[k].id)) =
           IF analyzeResponse.heap[k].block_state # "Unallocated" /\ Related(s, k)
           THEN Cardinality({t \in 1..Len(stackNodes) :
                               stackNodes[t].id = stackNodes[s].id})
           ELSE 0
    /\ \A e \in 1..Len(heapConnections) :
         /\ \E s \in 1..Len(stackNodes) :
              stackNodes[s].id = heapConnections[e].source
         /\ \E k \in 1..Len(heapNodes) :
              heapNodes[k].id = heapConnections[e].target
         /\ heapConnections[e].id =
              "e" \o heapConnections[e].source \o "-" \o heapConnections[e].target

\* A block that is current for p and dangling for q has both edges, next to an
\* Unallocated block that names p and has none.
C11_Witness ==
  /\ HeapResolved
  /\ Len(heapNodes) = 2
  /\ analyzeResponse.heap[1].current = "p"
  /\ analyzeResponse.heap[1].dangling = {"q"}
  /\ analyzeResponse.heap[1].block_state = "Allocated"
  /\ analyzeResponse.heap[2].block_state = "Unallocated"
  /\ analyzeResponse.heap[2].current = "p"
  /\ Len(stackNodes) = 2
  /\ stackNodes[1].id = "p"
  /\ stackNodes[2].id = "q"
  /\ Len(heapConnections) = 2

\* stack node s is both the current pointer and a dangling pointer of block k
CurrentAndDangling(s, k) ==
  /\ analyzeResponse.heap[k].block_state # "Unallocated"
  /\ stackNodes[s].id = analyzeResponse.heap[k].current
  /\ stackNodes[s].id \in analyzeResponse.heap[k].dangling

\* C12 as the specification words it (active relation takes precedence): the
\* edge of a stack node that is a block's current pointer and also one of its
\* dangling pointers does not have the warning color, and the node's metadata
\* is not "Dangling Pointer".
C12_ActivePrecedence ==
  HeapResolved =>
    \A k \in 1..Len(heapNodes), s \in 1..Len(stackNodes) :
      CurrentAndDangling(s, k) =>
        /\ \A e \in HeapEdgesBetween(stackNodes[s].id, heapNodes[k].id) :
             heapConnections[e].stroke # "red"
        /\ stackNodes[s].metadata # "Dangling Pointer"

\* C12 (amended: the dangling relation takes precedence): the dangling branch
\* is a test of its own after the current-pointer branch, so the edge of a
\* stack node that is a block's current pointer and also one of its dangling
\* pointers has the warning color and the node's metadata is "Dangling
\* Pointer"; the edge of a current pointer that is not a dangling pointer of
\* the block has a color of the palette.
C12_DanglingPrecedence ==
  HeapResolved =>
    \A k \in 1..Len(heapNodes), s \in 1..Len(stackNodes) :
      /\ CurrentAndDangling(s, k) =>
           /\ HeapEdgesBetween(stackNodes[s].id, heapNodes[k].id) # {}
           /\ \A e \in HeapEdgesBetween(stackNodes[s].id, heapNodes[k].id) :
                heapConnections[e].stroke = "red"
           /\ stackNodes[s].metadata = "Dangling Pointer"
      /\ (/\ analyzeResponse.heap[k].block_state # "Unallocated"
          /\ stackNodes[s].id = analyzeResponse.heap[k].current
          /\ stackNodes[s].id \notin analyzeResponse.heap[k].dangling)
         => \A e \in HeapEdgesBetween(stackNodes[s].id, heapNodes[k].id) :
              heapConnections[e].stroke \in Palette(theme)

\* The only block is Free with p both as its current pointer and among its
\* dangling pointers, and p's edge has been pushed.
C12_Witness ==
  /\ HeapResolved
  /\ Len(heapNodes) = 1
  /\ Len(stackNodes) = 1
  /\ CurrentAndDangling(1, 1)
  /\ Len(heapConnections) = 1

\* the stack nodes as the stack builder leaves them
StackBuilt ==
  BuildStack(analyzeResponse.stack, windowHeight, stackXCoordinate,
             [e \in 1..StackEdgeCount(analyzeResponse.stack) |-> "#F0A0E0"]).nodes

\* the blocks stack node s is related to, not counting Unallocated ones
BlocksOf(s) ==
  {k \in 1..Len(analyzeResponse.heap) :
     analyzeResponse.heap[k].block_state # "Unallocated" /\ Related(s, k)}

\* stack node s is related to some block, and to every such block through
\* danglingPointerIds only
DanglingOnly(s) ==
  /\ BlocksOf(s) # {}
  /\ \A k \in BlocksOf(s) : stackNodes[s].id # analyzeResponse.heap[k].current

\* C13 as the specification words it (only the active relation records the
\* heap address): a stack node related to heap blocks through
\* danglingPointerIds only keeps the pointing-to address the stack builder
\* gave it, and a heap node is anchored as a target only when some stack node
\* is its current pointer.
C13_ActiveOnlyRecordsAddress ==
  HeapResolved =>
    /\ \A s \in 1..Len(stackNodes) :
         DanglingOnly(s) =>
           stackNodes[s].pointingToAddress = StackBuilt[s].pointingToAddress
    /\ \A k \in 1..Len(heapNodes) :
         heapNodes[k].targetPosition = "left" =>
           \E s \in 1..Len(stackNodes) :
             stackNodes[s].id = analyzeResponse.heap[k].current

\* C13 (amended: either relation records the heap address): a stack node
\* related to some block, through currentPointerId or danglingPointerIds,
\* points to the address of the last such block in traversal order, and an
\* unrelated one keeps what the stack builder gave it; a heap node is anchored
\* as a target exactly when some stack node is related to it; next to the
\* address the heap builder changes only the metadata of a stack node, and
\* only under the dangling relation.
C13_EitherRelationRecordsAddress ==
  HeapResolved =>
    /\ \A s \in 1..Len(stackNodes) :
         /\ stackNodes[s].pointingToAddress =
              IF BlocksOf(s) # {}
              THEN heapNodes[CHOOSE k \in BlocksOf(s) :
                               \A l \in BlocksOf(s) : l <= k].address
              ELSE StackBuilt[s].pointingToAddress
         /\ stackNodes[s].metadata =
              IF \E k \in BlocksOf(s) :
                   stackNodes[s].id \in analyzeResponse.heap[k].dangling
              THEN "Dangling Pointer"
              ELSE StackBuilt[s].metadata
         /\ [stackNodes[s] EXCEPT !.pointingToAddress = Undefined,
                                  !.metadata = Undefined]
              = [StackBuilt[s] EXCEPT !.pointingToAddress = Undefined,
                                     !.metadata = Undefined]
    /\ \A k \in 1..Len(heapNodes) :
         heapNodes[k].targetPosition = "left" <=>
           \E s \in 1..Len(stackNodes) : k \in BlocksOf(s)

\* q has an edge to the stack node p and is a dangling pointer, only, of the
\* one freed block: it shows the block's address, not p's.
C13_Witness ==
  /\ HeapResolved
  /\ Len(stackNodes) = 2
  /\ Len(heapNodes) = 1
  /\ stackNodes[1].id = "p"
  /\ stackNodes[2].id = "q"
  /\ stackNodes[2].pointingToLabel = "p"
  /\ DanglingOnly(2)
  /\ stackNodes[2].pointingToAddress = heapNodes[1].address
  /\ stackNodes[2].pointingToAddress # stackNodes[1].address

\* C16 (heap node attributes): the heap node of the block at 0-based index i
\* (blocks of every state counted) has the id "<i>" when the block is
\* Allocated or Leaked, "free-<i>" when Free and "unallocated-<i>" when
\* Unallocated; its type is "LB" exactly when the block is Leaked and empty
\* otherwise; its isFree is true exactly when the block is Free.
C16_HeapNodeAttributes ==
  \A k \in 1..Len(heapNodes) :
    LET state == analyzeResponse.heap[k].block_state
    IN /\ state \in {"Allocated", "Leaked"} => heapNodes[k].id = ToString(k - 1)
       /\ state = "Free" => heapNodes[k].id = "free-" \o ToString(k - 1)
       /\ state = "Unallocated" =>
            heapNodes[k].id = "unallocated-" \o ToString(k - 1)
       /\ heapNodes[k].type = (IF state = "Leaked" THEN "LB" ELSE "")
       /\ heapNodes[k].isFree = (state = "Free")

\* An Unallocated block is followed by a Leaked one: the second node's id
\* counts the first.
C16_Witness ==
  /\ Len(heapNodes) = 2
  /\ analyzeResponse.heap[1].block_state = "Unallocated"
  /\ analyzeResponse.heap[2].block_state = "Leaked"
  /\ heapNodes[2].id = "1"
  /\ heapNodes[2].type = "LB"

\* the nodes of one layer stack upwards without a gap
Gapless(nodes) ==
  /\ \A i \in 1..Len(nodes) : nodes[i].height = nodes[i].size * BASE_NODE_HEIGHT
  /\ Len(nodes) > 0 =>
       nodes[1].y = windowHeight - nodes[1].height - HEIGHT_OFFSET
  /\ \A i \in 1..(Len(nodes) - 1) :
       /\ nodes[i + 1].y + nodes[i + 1].height = nodes[i].y
       /\ nodes[i + 1].y < nodes[i].y
  /\ \A i, j \in 1..Len(nodes) :
       i < j => nodes[j].y + nodes[j].height <= nodes[i].y

\* C17 (gapless upward stacking): in each layer the first node's y is the
\* window height minus its height minus HEIGHT_OFFSET, each further node sits
\* with its lower edge on the upper edge of the node before it, the height is
\* size * BASE_NODE_HEIGHT, y strictly decreases along the layer and no two
\* nodes of a layer overlap vertically.
C17_GaplessStacking ==
  /\ Gapless(stackNodes)
  /\ Gapless(heapNodes)

\* Two stack nodes and two heap nodes are placed.
C17_Witness ==
  /\ Len(stackNodes) = 2
  /\ Len(heapNodes) = 2
  /\ stackNodes[2].y < stackNodes[1].y
  /\ heapNodes[2].y < heapNodes[1].y

\* C19 (one color per connection within a pass): any two stack-to-heap edges
\* of the list with the same source and the same target have the same color,
\* also when stack ids are repeated, whatever colors were drawn.
C19_OneColorPerConnection ==
  \A e, f \in 1..Len(heapConnections) :
    (/\ heapConnections[e].source = heapConnections[f].source
     /\ heapConnections[e].target = heapConnections[f].target)
    => heapConnections[e].stroke = heapConnections[f].stroke

\* Two stack nodes of the same id are the current pointer of a block: two
\* edges of the same source and target, of a palette color.
C19_Witness ==
  \E e, f \in 1..Len(heapConnections) :
    /\ e # f
    /\ heapConnections[e].source = heapConnections[f].source
    /\ heapConnections[e].target = heapConnections[f].target
    /\ heapConnections[e].stroke \in Palette(theme)

\* the positions of the labels of the given text in the assembled list
LabelsOf(text) ==
  {i \in 1..Len(FlowNodes) :
     FlowNodes[i].type = "labelNode" /\ FlowNodes[i].label = text}

\* the label of a layer is there when the layer has a node, 50 above the
\* least y of the layer, and not interactive
LabelledLayer(text, layer) ==
  /\ Cardinality(LabelsOf(text)) = (IF Len(layer) > 0 THEN 1 ELSE 0)
  /\ \A i \in LabelsOf(text) :
       /\ \A n \in 1..Len(layer) : FlowNodes[i].y + 50 <= layer[n].y
       /\ \E n \in 1..Len(layer) : FlowNodes[i].y + 50 = layer[n].y
       /\ ~FlowNodes[i].draggable
       /\ ~FlowNodes[i].selectable

\* C18 (label nodes): the assembled node list holds the 'Stack' label exactly
\* when there is a stack node and the 'Heap' label exactly when there is a
\* heap node; a label's y is the least y of its layer's nodes minus 50, and a
\* label is neither draggable nor selectable.
C18_LabelNodes ==
  /\ LabelledLayer("Stack", stackNodes)
  /\ LabelledLayer("Heap", heapNodes)
  /\ \A i \in 1..Len(FlowNodes) :
       FlowNodes[i].type = "labelNode" => FlowNodes[i].label \in {"Stack", "Heap"}

\* Both labels stand over layers of two nodes each.
C18_Witness ==
  /\ Len(stackNodes) = 2
  /\ Len(heapNodes) = 2
  /\ Len(labelNodes) = 2
  /\ labelNodes[1].y = stackNodes[2].y - 50
  /\ labelNodes[2].y = heapNodes[2].y - 50

RECURSIVE CountedHeapSize(_)
\* the sum of the sizes of the first k blocks that are neither Free nor
\* Unallocated
CountedHeapSize(k) ==
  IF k = 0 THEN 0
  ELSE CountedHeapSize(k - 1)
       + (IF analyzeResponse.heap[k].block_state \in {"Free", "Unallocated"}
          THEN 0 ELSE analyzeResponse.heap[k].size)

\* C20 (memory usage): calculateMemoryUsage over the stack nodes is the sum of
\* all their sizes, whatever their names are, and over the heap nodes it is
\* the sum of the sizes of the blocks that are neither Free nor Unallocated.
C20_MemoryUsage ==
  /\ calculateMemoryUsage(stackNodes) = SumSizes(stackNodes, Len(stackNodes))
  /\ calculateMemoryUsage(heapNodes) = CountedHeapSize(Len(heapNodes))

\* C21 (identifier uniqueness): when the names of the stack symbols are
\* pairwise distinct, the ids of the assembled nodes (stack nodes, heap nodes
\* and labels) are pairwise distinct, every edge's id is "e" + source + "-" +
\* target, and the ids of the edges, stack edges and stack-to-heap edges
\* together, are pairwise distinct.
C21_IdentifierUniqueness ==
  DistinctNames =>
    /\ \A i, j \in 1..Len(FlowNodes) :
         i # j => FlowNodes[i].id # FlowNodes[j].id
    /\ \A e \in 1..Len(FlowEdges) :
         FlowEdges[e].id = "e" \o FlowEdges[e].source \o "-" \o FlowEdges[e].target
    /\ \A e, f \in 1..Len(FlowEdges) :
         e # f => FlowEdges[e].id # FlowEdges[f].id

\* A graph with both labels, two stack nodes, two freed heap blocks, a stack
\* edge and a stack-to-heap edge.
C21_Witness ==
  /\ DistinctNames
  /\ Len(labelNodes) = 2
  /\ Len(stackNodes) = 2
  /\ Len(heapNodes) = 2
  /\ heapNodes[1].isFree
  /\ heapNodes[2].isFree
  /\ Len(stackConnections) = 1
  /\ Len(heapConnections) >= 1

-----------------------------------------------------------------------------
(* Properties of the Visualizer, under Spec *)

\* The graph handed to the renderer (the label nodes are derived from it).
Graph == <<stackNodes, heapNodes, stackConnections, heapConnections>>

Viewport == <<windowHeight, visualizerPanelSize, theme>>

Props == <<sourceCode, analyzeResponse, analyzeError>>

\* The retained result has been drawn and the effects have settled: the last
\* render built from lastValidAnalyzeResponse, for the present viewport, and no
\* builder is due.
SettledOnLastValid ==
  /\ mounted
  /\ ~crashed
  /\ lastValidAnalyzeResponse # NoObject
  /\ deps.response = lastValidAnalyzeResponse.id
  /\ ~stackNodesChanged
  /\ deps.theme = theme
  /\ deps.windowHeight = windowHeight
  /\ deps.panel = visualizerPanelSize
  /\ deps.heapX = heapXCoordinate

\* the result is not valid although there is source text and a retained result
FrozenInputs ==
  /\ Trim(sourceCode) # <<>>
  /\ lastValidAnalyzeResponse # NoObject
  /\ \/ analyzeError
     \/ ~(\/ analyzeResponse.hasStack /\ Len(analyzeResponse.stack) > 0
          \/ analyzeResponse.hasHeap /\ Len(analyzeResponse.heap) > 0)

\* C1 (freeze on error): once the retained result R1 is drawn and settled, every
\* step that leaves the inputs invalid with non-empty source text (the viewport
\* unchanged) leaves the graph, colors included, exactly as it is, and leaves
\* it settled on R1, so this goes on for as long as such inputs continue.
C1_FreezeOnError ==
  [][(SettledOnLastValid /\ FrozenInputs' /\ Viewport' = Viewport)
       => (Graph' = Graph /\ SettledOnLastValid')]_vars

\* The graph of a retained result with stack-to-heap edges stands, settled,
\* while the query is in error and the result object is an empty one.
C1_Witness ==
  /\ SettledOnLastValid
  /\ FrozenInputs
  /\ ~pending
  /\ analyzeError
  /\ analyzeResponse.id # lastValidAnalyzeResponse.id
  /\ stackNodes # <<>>
  /\ heapConnections # <<>>

\* C2 (clear on empty source): when the effects have settled with the trimmed
\* source text empty and the result not valid, the graph is empty.
C2_ClearOnEmptySource ==
  (/\ mounted
   /\ ~pending
   /\ ~crashed
   /\ Trim(sourceCode) = <<>>
   /\ ~hasValidAnalyzeResponse)
  => Graph = <<(<<>>), (<<>>), (<<>>), (<<>>)>>

\* a step that is a render of Visualizer: the inputs stay, the state moves
RenderStep == Props' = Props /\ Viewport' = Viewport

\* id, address and position of every node
Layout ==
  <<[i \in 1..Len(stackNodes) |->
       <<stackNodes[i].id, stackNodes[i].address, stackNodes[i].x, stackNodes[i].y>>],
    [i \in 1..Len(heapNodes) |->
       <<heapNodes[i].id, heapNodes[i].address, heapNodes[i].x, heapNodes[i].y>>]>>

\* C3 (full-rebuild trigger, idempotence): a render calls resetMemory exactly
\* when the result has no error, has an entry and is not the retained object;
\* and when the retained result is drawn and settled, a step that delivers the
\* same object as a valid result (viewport unchanged) resets nothing and leaves
\* every address and position as it is.
C3_RebuildTrigger ==
  [][/\ RenderStep =>
         (didReset' <=>
            /\ ~analyzeError
            /\ \/ analyzeResponse.hasStack /\ Len(analyzeResponse.stack) > 0
               \/ analyzeResponse.hasHeap /\ Len(analyzeResponse.heap) > 0
            /\ analyzeResponse.id # lastValidAnalyzeResponse.id)
     /\ (/\ SettledOnLastValid
         /\ ~analyzeError'
         /\ analyzeResponse'.id = lastValidAnalyzeResponse.id
         /\ Viewport' = Viewport)
        => /\ RenderStep => ~didReset'
           /\ Layout' = Layout
           /\ SettledOnLastValid']_vars

\* The retained result is delivered again as the valid result, after an
\* erroring query, and the render has run without a reset.
C3_Witness ==
  /\ SettledOnLastValid
  /\ hasValidAnalyzeResponse
  /\ analyzeResponse.id = lastValidAnalyzeResponse.id
  /\ ~pending
  /\ ~didReset
  /\ stackNodes # <<>>
  /\ heapNodes # <<>>

\* C4 (lastValidResult): the retained result is null or has an entry; it
\* changes only to the current result, at a moment that result is valid, and
\* never back to null.
C4_LastValidInvariant ==
  /\ [](\/ lastValidAnalyzeResponse = NoObject
        \/ /\ lastValidAnalyzeResponse.hasStack
           /\ Len(lastValidAnalyzeResponse.stack) > 0
        \/ /\ lastValidAnalyzeResponse.hasHeap
           /\ Len(lastValidAnalyzeResponse.heap) > 0)
  /\ [][lastValidAnalyzeResponse' # lastValidAnalyzeResponse
          => /\ ~analyzeError
             /\ lastValidAnalyzeResponse' = analyzeResponse
             /\ lastValidAnalyzeResponse' # NoObject]_vars

\* A result stays retained while the source text is empty and the query is in
\* error.
C4_Witness ==
  /\ lastValidAnalyzeResponse # NoObject
  /\ Trim(sourceCode) = <<>>
  /\ analyzeError
  /\ mounted
  /\ ~pending

\* C5 (nothing before the first valid result): while the trimmed source text is
\* empty and no result is retained, the graph is empty, whatever the current
\* result is.
C5_NothingBeforeFirstValid ==
  (Trim(sourceCode) = <<>> /\ lastValidAnalyzeResponse = NoObject)
    => Graph = <<(<<>>), (<<>>), (<<>>), (<<>>)>>

\* A valid result stands as the current result while the source text is empty
\* and nothing is retained yet: the render that will retain it is due.
C5_Witness ==
  /\ Trim(sourceCode) = <<>>
  /\ lastValidAnalyzeResponse = NoObject
  /\ mounted
  /\ hasValidAnalyzeResponse
  /\ pending

\* C9 (no fatal error): no recomputation throws.
C9_NoFatalError == ~crashed

\* the effects have settled on a result without error
SettledValid ==
  /\ mounted
  /\ ~pending
  /\ ~crashed
  /\ ~analyzeError

\* C14 (heap guard): when the effects have settled on a valid result whose
\* stack list is empty and whose heap list is not, there is no heap node and
\* no stack-to-heap edge, whatever was drawn before.
C14_HeapGuard ==
  (/\ SettledValid
   /\ analyzeResponse.hasStack
   /\ Len(analyzeResponse.stack) = 0
   /\ analyzeResponse.hasHeap
   /\ Len(analyzeResponse.heap) > 0)
  => /\ heapNodes = <<>>
     /\ heapConnections = <<>>

\* A result with heap blocks and an empty stack list has settled, retained,
\* after a render of it that reset the memory.
C14_Witness ==
  /\ SettledValid
  /\ analyzeResponse.hasStack
  /\ Len(analyzeResponse.stack) = 0
  /\ analyzeResponse.hasHeap
  /\ Len(analyzeResponse.heap) > 0
  /\ lastValidAnalyzeResponse = analyzeResponse
  /\ Trim(sourceCode) # <<>>

\* C15 (stack before heap): when the effects have settled on a valid result R
\* with a non-empty stack list, the stack nodes, the heap nodes and the
\* stack-to-heap edges are those of one heap-builder pass over R's heap blocks
\* against the stack nodes built from R, for some choice of the edge colors
\* (and no heap node or edge when R has no heap list): nothing resolved
\* against another result's stack nodes is left.
C15_StackBeforeHeap ==
  (/\ SettledValid
   /\ analyzeResponse.hasStack
   /\ Len(analyzeResponse.stack) > 0)
  => IF analyzeResponse.hasHeap
     THEN \E colors \in [1..HeapEdgeCount(analyzeResponse.heap, StackBuilt)
                           -> Palette(theme)] :
            BuildHeap(analyzeResponse.heap, StackBuilt, windowHeight,
                      heapXCoordinate, colors)
              = [stack |-> stackNodes, nodes |-> heapNodes,
                 connections |-> heapConnections]
     ELSE /\ stackNodes = StackBuilt
          /\ heapNodes = <<>>
          /\ heapConnections = <<>>

\* The result with the stack [p, q] and two related heap blocks has settled
\* after another result was retained, with its two stack-to-heap edges.
C15_Witness ==
  /\ SettledValid
  /\ analyzeResponse = ResultPQ
  /\ lastValidAnalyzeResponse = ResultPQ
  /\ Len(heapConnections) = 2
  /\ stackNodes[2].metadata = "Dangling Pointer"

\* C22 (referential integrity): in every graph the component holds, settled
\* or between two renders, the source and the target of each edge are ids of
\* nodes of the same graph.
C22_ReferentialIntegrity ==
  \A e \in 1..Len(FlowEdges) :
    /\ \E n \in 1..Len(FlowNodes) : FlowNodes[n].id = FlowEdges[e].source
    /\ \E n \in 1..Len(FlowNodes) : FlowNodes[n].id = FlowEdges[e].target

\* C23 (recomputation terminates): after a single change of the inputs
\* (source text, result, error, window height, panel size, theme) the renders
\* and their effects reach, within fewer than MaxRenders renders, a state where
\* no render is due: no endless reset or rebuild loop.
C23_RecomputationTerminates ==
  /\ [](renders < MaxRenders)
  /\ [](pending => <>(~pending))

\* The effects have settled on a result with stack-to-heap edges that was
\* accepted with a reset and two builds.
C23_Witness ==
  /\ SettledValid
  /\ ~didReset
  /\ ~stackNodesChanged
  /\ lastValidAnalyzeResponse = analyzeResponse
  /\ Len(heapConnections) > 0

-----------------------------------------------------------------------------
(* Properties of the query key, under QuerySpec and CompressSpec *)

\* C24: the query data delivered for the editor's text is the analysis of a
\* text with the same compressed form, and a cached analysis of a text with
\* another compressed form is not filed under the key of the editor's text.
C24_ResultMatchesSource ==
  /\ QueryData # NoData =>
       compressSourceCode(QueryData) = compressSourceCode(sourceCode)
  /\ \A entry \in queryCache :
       compressSourceCode(entry.text) # compressSourceCode(sourceCode) =>
         entry.key # createSourceCodeKey(sourceCode)

RECURSIVE CommentIndicesFrom(_, _)
\* The indices of s from i on that lie in a comment, the marks included: a
\* line comment runs to the end of its line, a block comment to its closing
\* mark, or to the end of the text when there is none.
CommentIndicesFrom(s, i) ==
  IF i >= Len(s) THEN {}
  ELSE IF s[i] = "/" /\ s[i + 1] = "/"
       THEN LET ends == {j \in i..Len(s) : s[j] = "\n"}
                end == IF ends = {} THEN Len(s) + 1
                       ELSE CHOOSE j \in ends : \A k \in ends : j <= k
            IN (i..(end - 1)) \cup CommentIndicesFrom(s, end)
  ELSE IF s[i] = "/" /\ s[i + 1] = "*"
       THEN LET closings == {j \in (i + 2)..(Len(s) - 1) :
                               s[j] = "*" /\ s[j + 1] = "/"}
                closing == CHOOSE j \in closings : \A k \in closings : j <= k
            IN IF closings = {} THEN i..Len(s)
               ELSE (i..(closing + 1)) \cup CommentIndicesFrom(s, closing + 2)
  ELSE CommentIndicesFrom(s, i + 1)

\* C29: compressing a compressed text changes nothing, so the text and its
\* compressed form have one key; and removeComments keeps no character of a
\* line comment or of a block comment, closed or not.
C29_CompressionIdempotentCommentFree ==
  /\ compressSourceCode(compressSourceCode(sourceCode))
       = compressSourceCode(sourceCode)
  /\ createSourceCodeKey(compressSourceCode(sourceCode))
       = createSourceCodeKey(sourceCode)
  /\ \A k \in 1..Len(KeptFrom(sourceCode, 1)) :
       KeptFrom(sourceCode, 1)[k] \notin CommentIndicesFrom(sourceCode, 1)

-----------------------------------------------------------------------------
(* Properties of the update state, under UpdatesSpec *)

\* C25: isInstalling is false while progress is null, Completed or Failed, and
\* true while progress is Started.
C25_InstallInvariant ==
  /\ updateState.progress \in {NoProgress, "Completed", "Failed"} =>
       ~updateState.isInstalling
  /\ updateState.progress = "Started" => updateState.isInstalling

\* an install is awaited and the Completed event has come
C25_Witness ==
  /\ updateCalls.installs > 0
  /\ updateState.progress = "Completed"
  /\ ~updateState.isInstalling

\* C26: the update modal is open only while an update is available.
C26_ModalInvariant ==
  updateState.isUpdateModalOpen => updateState.isUpdateAvailable

\* a check found an update and opened the modal
C26_Witness ==
  /\ updateState.isUpdateModalOpen
  /\ updateState.isUpdateAvailable
  /\ updateState.updateCheckStatus = "success"

-----------------------------------------------------------------------------
(* Properties of the settings store, under StoreSpec *)

\* C27: the font size of the settings is within 8..32.
C27_FontSizeBounds == settings.fontSize \in 8..32

\* C28: an operation that writes the settings leaves under 'editor-settings'
\* a text that reads back as the settings in memory, and initializeStore run
\* next leaves those settings; initializeStore on a text that does not parse
\* leaves the default settings.
C28_PersistenceRoundTrip ==
  /\ [][(<<settings, localStorage>>' # <<settings, localStorage>> /\ fonts' = fonts) =>
          /\ localStorage'.parses
          /\ JsonParse(localStorage') = settings'
          /\ InitializedSettings(settings', localStorage') = settings']_vars
  /\ [](localStorage.present /\ ~localStorage.parses =>
          InitializedSettings(settings, localStorage) = DEFAULT_SETTINGS)

\* settings other than the defaults were written and initializeStore ran
C28_Witness ==
  /\ settings # DEFAULT_SETTINGS
  /\ localStorage.parses
  /\ JsonParse(localStorage) = settings
  /\ fonts.fontsLoading

====
